---- MODULE Spec2Model ----
(***************************************************************************)
(* Blackjack engine of core/game/blackjack.go: one Game (deck, two hands,  *)
(* phase, bet, result, flags) driven by PlaceBet / PlaceBetNoShuffle, Hit, *)
(* Stand and DoubleDown.  Every action is one whole call of the method,    *)
(* the dealer's auto-play loop included.  call and err record the last     *)
(* method call, with its argument, and the error it returned.              *)
(***************************************************************************)
EXTENDS Integers, Sequences, FiniteSets, TLC

\* The fields of Game, then: call, the last method called and its argument;
\* err, the error it returned; deckExhausted, whether the dealer's loop of
\* the round returned on a failed draw.
VARIABLES Deck, PlayerHand, DealerHand, Phase, Bet, Result, IsDoubled,
          PlayerStood, call, err, deckExhausted

gameVars == <<Deck, PlayerHand, DealerHand, Phase, Bet, Result, IsDoubled, PlayerStood>>

vars == <<Deck, PlayerHand, DealerHand, Phase, Bet, Result, IsDoubled, PlayerStood, call, err, deckExhausted>>

\* The account store and the server's connections: users and userStats, the
\* rows of the two tables in id order; sessions, the rows of the sessions
\* table; issued, the number of session ids generated so far; now, the
\* database clock; clients, the ClientState of each connection; response,
\* the last line written to a connection; ledger, the history of the rounds
\* a connection has played: the balance before the BET of the current round,
\* the amount of that BET, and result, stake and payout of each settled round.
VARIABLES users, userStats, sessions, issued, now, clients, response, ledger

storeVars == <<users, userStats, sessions, issued, now, clients, response, ledger>>

allVars == <<vars, storeVars>>

\* no round played yet
noLedger == [before |-> 0, amount |-> 0, rounds |-> <<>>]

----------------------------------------------------------------------------
(* Bounds *)

\* longest deck handed to NewGameWithDeck
MaxDeck == 5

\* largest amount passed to PlaceBet (amounts range over -1..MaxBet)
MaxBet == 2

\* largest stake DoubleDown is let to reach: a DoubleDown that fails on an
\* empty deck keeps the doubled Bet and can be repeated without end
MaxStake == 8

----------------------------------------------------------------------------
(* Enumerations *)

PhaseWaitingForBet == "WAITING_FOR_BET"

PhasePlayerTurn == "PLAYER_TURN"

PhaseDealerTurn == "DEALER_TURN"

PhaseGameOver == "GAME_OVER"

ResultPlayerWin == "PLAYER_WIN"

ResultDealerWin == "DEALER_WIN"

ResultPush == "PUSH"

ResultPlayerBlackjack == "PLAYER_BLACKJACK"

\* zero value of GameResult: no result set
ResultNone == ""

\* a nil error
Nil == "nil"

ErrDeckEmpty == "deck is empty"

ErrDealFailed == "failed to deal: deck is empty"

ErrBetPhase == "cannot place bet in current phase"

ErrBetPositive == "bet must be positive"

ErrHitPhase == "cannot hit in current phase"

ErrStandPhase == "cannot stand in current phase"

ErrDoublePhase == "cannot double down in current phase"

ErrDoubleInitial == "can only double down on initial hand"

----------------------------------------------------------------------------
(* Cards.  Suits are written S, H, D, C for the four suit symbols. *)

rankValues == [r \in {"A", "2", "3", "4", "5", "6", "7", "8", "9", "10", "J", "Q", "K"} |->
                 CASE r = "A" -> 11
                   [] r \in {"10", "J", "Q", "K"} -> 10
                   [] r = "2" -> 2 [] r = "3" -> 3 [] r = "4" -> 4 [] r = "5" -> 5
                   [] r = "6" -> 6 [] r = "7" -> 7 [] r = "8" -> 8 [] r = "9" -> 9]

Card(rank, suit) == [Rank |-> rank, Suit |-> suit, Value |-> rankValues[rank]]

suits == <<"S", "H", "D", "C">>

ranks == <<"A", "2", "3", "4", "5", "6", "7", "8", "9", "10", "J", "Q", "K">>

\* a slip: the loops are nested the other way round
NewDeckRankMajor == [i \in 1..(Len(suits) * Len(ranks)) |->
              Card(ranks[((i - 1) \div Len(suits)) + 1], suits[((i - 1) % Len(suits)) + 1])]

\* the full deck, suit-major and rank-minor
NewDeck == [i \in 1..(Len(suits) * Len(ranks)) |->
              Card(ranks[((i - 1) % Len(ranks)) + 1], suits[((i - 1) \div Len(ranks)) + 1])]

\* the cards the decks of the model are built from, a part of the 52-card
\* deck: two Aces, two ten-valued cards, a 6 and a 7 give blackjacks on both
\* sides, soft and hard 17, busts, ties and dealer hands below 17
CardPool == {Card("A", "S"), Card("A", "H"), Card("K", "S"), Card("Q", "H"),
             Card("6", "C"), Card("7", "S")}

\* the zero Card returned next to an error
NoCard == [Rank |-> "", Suit |-> "", Value |-> 0]

----------------------------------------------------------------------------
(* Deck *)

\* a bug: the card under the one drawn leaves the deck with it
DrawDropsNext(d) ==
    IF Len(d) = 0
    THEN [card |-> NoCard, deck |-> d, err |-> ErrDeckEmpty]
    ELSE [card |-> Head(d), deck |-> SubSeq(d, 3, Len(d)), err |-> Nil]

\* a bug: the front card is handed out but stays in the deck
\* a slip: the card is taken from the back of the deck
DrawFromBack(d) ==
    IF Len(d) = 0
    THEN [card |-> NoCard, deck |-> d, err |-> ErrDeckEmpty]
    ELSE [card |-> d[Len(d)], deck |-> SubSeq(d, 1, Len(d) - 1), err |-> Nil]

DrawKeepsCard(d) ==
    IF Len(d) = 0
    THEN [card |-> NoCard, deck |-> d, err |-> ErrDeckEmpty]
    ELSE [card |-> Head(d), deck |-> d, err |-> Nil]

Draw(d) ==
    IF Len(d) = 0
    THEN [card |-> NoCard, deck |-> d, err |-> ErrDeckEmpty]
    ELSE [card |-> Head(d), deck |-> Tail(d), err |-> Nil]

\* the place of a card in NewDeck
deckPosition(card) == CHOOSE i \in 1..Len(NewDeck) : NewDeck[i] = card

\* d lists its cards in the order NewDeck has them, as the deck of NewGame does
inNewDeckOrder(d) ==
    \A i, j \in 1..Len(d) : i < j => deckPosition(d[i]) < deckPosition(d[j])

\* the reorderings of n positions
Orders == [n \in 0..(MaxDeck + 1) |-> Permutations(1..n)]

\* every order Shuffle can leave the deck in
Shuffle(d) ==
    {[i \in 1..Len(d) |-> d[p[i]]] : p \in Orders[Len(d)]}

----------------------------------------------------------------------------
(* Hand *)

AddCard(h, card) == Append(h, card)

RECURSIVE SumCards(_)
SumCards(h) ==
    IF h = <<>> THEN 0
    ELSE (IF Head(h).Rank = "A" THEN 11 ELSE Head(h).Value) + SumCards(Tail(h))

RECURSIVE CountAces(_)
CountAces(h) ==
    IF h = <<>> THEN 0
    ELSE (IF Head(h).Rank = "A" THEN 1 ELSE 0) + CountAces(Tail(h))

RECURSIVE ReduceAces(_, _)
ReduceAces(value, aces) ==
    IF aces > 0 /\ value > 21 THEN ReduceAces(value - 10, aces - 1) ELSE value

\* a bug: one Ace at most is counted down to 1
ValueSingleAce(h) ==
    IF CountAces(h) > 0 /\ SumCards(h) > 21 THEN SumCards(h) - 10 ELSE SumCards(h)

Value(h) == ReduceAces(SumCards(h), CountAces(h))

IsBusted(h) == Value(h) > 21

\* a bug: any 21 counts, whatever the number of cards
IsBlackjackAny21(h) == Value(h) = 21

IsBlackjack(h) == Len(h) = 2 /\ Value(h) = 21

----------------------------------------------------------------------------
(* Game *)

\* the decks a game is created over: duplicate-free, in any order
InitDecks ==
    UNION {{d \in [1..n -> CardPool] : \A i, j \in 1..n : i # j => d[i] # d[j]} : n \in 0..MaxDeck}

\* the amounts a caller passes to PlaceBet
Amounts == -1..MaxBet

\* NewGameWithDeck(cards); NewGame is the same over NewDeck()
Init ==
    /\ Deck \in InitDecks
    /\ PlayerHand = <<>>
    /\ DealerHand = <<>>
    /\ Phase = PhaseWaitingForBet
    /\ Bet = 0
    /\ Result = ResultNone
    /\ IsDoubled = FALSE
    /\ PlayerStood = FALSE
    /\ call = [op |-> "NewGame"]
    /\ err = Nil
    /\ deckExhausted = FALSE

\* a bug: the first two cards go to the player, the next two to the dealer
dealInitialInPairs(deck, player, dealer) ==
    IF Len(deck) < 4
    THEN [deck |-> <<>>, player |-> player, dealer |-> dealer, err |-> ErrDealFailed]
    ELSE [deck |-> SubSeq(deck, 5, Len(deck)),
          player |-> AddCard(AddCard(player, deck[1]), deck[2]),
          dealer |-> AddCard(AddCard(dealer, deck[3]), deck[4]),
          err |-> Nil]

\* the four draws of the opening deal, player, dealer, player, dealer; the
\* first failing draw stops the deal and keeps what was dealt so far
dealInitial(deck, player, dealer) ==
    LET d1 == Draw(deck) IN
    IF d1.err # Nil THEN [deck |-> deck, player |-> player, dealer |-> dealer, err |-> ErrDealFailed]
    ELSE LET p1 == AddCard(player, d1.card)
             d2 == Draw(d1.deck) IN
    IF d2.err # Nil THEN [deck |-> d1.deck, player |-> p1, dealer |-> dealer, err |-> ErrDealFailed]
    ELSE LET h1 == AddCard(dealer, d2.card)
             d3 == Draw(d2.deck) IN
    IF d3.err # Nil THEN [deck |-> d2.deck, player |-> p1, dealer |-> h1, err |-> ErrDealFailed]
    ELSE LET p2 == AddCard(p1, d3.card)
             d4 == Draw(d3.deck) IN
    IF d4.err # Nil THEN [deck |-> d3.deck, player |-> p2, dealer |-> h1, err |-> ErrDealFailed]
    ELSE [deck |-> d4.deck, player |-> p2, dealer |-> AddCard(h1, d4.card), err |-> Nil]

\* a bug: the player's blackjack is looked at before the dealer's
resolveOpeningPlayerFirst(player, dealer) ==
    IF IsBlackjack(player) THEN [Phase |-> PhaseGameOver, Result |-> ResultPlayerBlackjack]
    ELSE IF IsBlackjack(dealer) THEN [Phase |-> PhaseGameOver, Result |-> ResultDealerWin]
    ELSE [Phase |-> PhasePlayerTurn, Result |-> Result]

\* the switch on the opening blackjacks: the phase and result after the deal
resolveOpening(player, dealer) ==
    LET pBJ == IsBlackjack(player)
        dBJ == IsBlackjack(dealer)
    IN CASE pBJ /\ dBJ -> [Phase |-> PhaseGameOver, Result |-> ResultPush]
         [] pBJ /\ ~dBJ -> [Phase |-> PhaseGameOver, Result |-> ResultPlayerBlackjack]
         [] dBJ /\ ~pBJ -> [Phase |-> PhaseGameOver, Result |-> ResultDealerWin]
         [] OTHER -> [Phase |-> PhasePlayerTurn, Result |-> Result]

\* a bug: a failed draw is reported but the round is opened all the same
dealAndResolveIgnoresError(amount, deck) ==
    LET d == dealInitial(deck, PlayerHand, DealerHand)
        r == resolveOpening(d.player, d.dealer)
    IN /\ Bet' = amount
       /\ Deck' = d.deck
       /\ PlayerHand' = d.player
       /\ DealerHand' = d.dealer
       /\ err' = d.err
       /\ Phase' = r.Phase
       /\ Result' = r.Result
       /\ UNCHANGED <<IsDoubled, PlayerStood, deckExhausted>>

\* the body of PlaceBet / PlaceBetNoShuffle once the amount is accepted and
\* the deck is in the order it is dealt from
dealAndResolve(amount, deck) ==
    LET d == dealInitial(deck, PlayerHand, DealerHand) IN
    /\ Bet' = amount
    /\ Deck' = d.deck
    /\ PlayerHand' = d.player
    /\ DealerHand' = d.dealer
    /\ err' = d.err
    /\ IF d.err # Nil
       THEN UNCHANGED <<Phase, Result>>
       ELSE LET r == resolveOpening(d.player, d.dealer) IN
            /\ Phase' = r.Phase
            /\ Result' = r.Result
    /\ UNCHANGED <<IsDoubled, PlayerStood, deckExhausted>>

\* a bug: only negative amounts are turned away
amountRejectedNegativeOnly(amount) == amount < 0

\* the amount check of PlaceBet and PlaceBetNoShuffle
amountRejected(amount) == amount <= 0

PlaceBetNoShuffle(amount) ==
    /\ call' = [op |-> "PlaceBetNoShuffle", amount |-> amount]
    /\ IF Phase # PhaseWaitingForBet
       THEN err' = ErrBetPhase /\ UNCHANGED <<gameVars, deckExhausted>>
       ELSE IF amountRejected(amount)
       THEN err' = ErrBetPositive /\ UNCHANGED <<gameVars, deckExhausted>>
       ELSE dealAndResolve(amount, Deck)

\* PlaceBet deals from the deck as Shuffle leaves it.  What Shuffle can leave
\* does not depend on the order it starts from, so the accepted call is taken
\* on decks in NewDeck order only, the decks of NewGame, which is where the
\* repository calls it; every state it can reach from any order is reached.
PlaceBet(amount) ==
    /\ call' = [op |-> "PlaceBet", amount |-> amount]
    /\ IF Phase # PhaseWaitingForBet
       THEN err' = ErrBetPhase /\ UNCHANGED <<gameVars, deckExhausted>>
       ELSE IF amountRejected(amount)
       THEN err' = ErrBetPositive /\ UNCHANGED <<gameVars, deckExhausted>>
       ELSE /\ inNewDeckOrder(Deck)
            /\ \E shuffled \in Shuffle(Deck) : dealAndResolve(amount, shuffled)

\* a bug: equal values are given to the dealer
determineWinnerDealerTakesTies(player, dealer) ==
    IF IsBusted(player) THEN ResultDealerWin
    ELSE IF IsBusted(dealer) THEN ResultPlayerWin
    ELSE IF Value(player) > Value(dealer) THEN ResultPlayerWin
    ELSE ResultDealerWin

determineWinner(player, dealer) ==
    LET playerValue == Value(player)
        dealerValue == Value(dealer)
    IN IF IsBusted(player) THEN ResultDealerWin
       ELSE IF IsBusted(dealer) THEN ResultPlayerWin
       ELSE IF playerValue > dealerValue THEN ResultPlayerWin
       ELSE IF dealerValue > playerValue THEN ResultDealerWin
       ELSE ResultPush

\* a bug: the dealer also draws on a soft 17 (a 17 with an Ace counted as 11)
dealerHitsSoft17(dealer) ==
    \/ Value(dealer) < 17
    \/ Value(dealer) = 17 /\ SumCards(dealer) - 10 * CountAces(dealer) < 17

\* the loop condition of playDealerTurn
dealerMustDraw(dealer) == Value(dealer) < 17

\* the dealer's loop, run to its end: the deck and dealer hand it leaves, and
\* whether a draw failed on an empty deck
RECURSIVE dealerLoop(_, _)
dealerLoop(deck, dealer) ==
    IF dealerMustDraw(dealer)
    THEN LET d == Draw(deck) IN
         IF d.err # Nil
         THEN [deck |-> deck, dealer |-> dealer, exhausted |-> TRUE]
         ELSE dealerLoop(d.deck, AddCard(dealer, d.card))
    ELSE [deck |-> deck, dealer |-> dealer, exhausted |-> FALSE]

\* a bug: the round ends without a result when the deck ran out
dealerResultNoneWhenExhausted(player, dealer, exhausted) ==
    IF exhausted THEN ResultNone ELSE determineWinner(player, dealer)

\* a bug: the hands are compared even though the deck ran out
dealerResultByValues(player, dealer, exhausted) == determineWinner(player, dealer)

\* the result playDealerTurn settles on once the loop has ended
dealerResult(player, dealer, exhausted) ==
    IF exhausted THEN ResultPush ELSE determineWinner(player, dealer)

\* a bug: a failed draw returns from the loop without settling the round
playDealerTurnLeavesRoundOpen(deck, player, dealer) ==
    LET l == dealerLoop(deck, dealer) IN
    /\ Deck' = l.deck
    /\ DealerHand' = l.dealer
    /\ deckExhausted' = l.exhausted
    /\ IF l.exhausted
       THEN Phase' = PhaseDealerTurn /\ UNCHANGED Result
       ELSE Phase' = PhaseGameOver /\ Result' = determineWinner(player, l.dealer)

\* playDealerTurn: the loop, then GAME_OVER with the settled result
playDealerTurn(deck, player, dealer) ==
    LET l == dealerLoop(deck, dealer) IN
    /\ Deck' = l.deck
    /\ DealerHand' = l.dealer
    /\ deckExhausted' = l.exhausted
    /\ Phase' = PhaseGameOver
    /\ Result' = dealerResult(player, l.dealer, l.exhausted)

\* a bug: Hit is let through on any game that has been dealt
hitAllowedOnceDealt == Phase # PhaseWaitingForBet

\* the phase check that opens Hit
hitAllowed == Phase = PhasePlayerTurn

\* a bug: a Hit that finds the deck empty gives the round to the dealer
HitEndsRoundOnEmptyDeck ==
    /\ call' = [op |-> "Hit"]
    /\ IF ~hitAllowed
       THEN err' = ErrHitPhase /\ UNCHANGED <<gameVars, deckExhausted>>
       ELSE LET d == Draw(Deck) IN
            IF d.err # Nil
            THEN /\ err' = d.err
                 /\ Phase' = PhaseGameOver
                 /\ Result' = ResultDealerWin
                 /\ UNCHANGED <<Deck, PlayerHand, DealerHand, Bet, IsDoubled, PlayerStood, deckExhausted>>
            ELSE /\ err' = Nil
                 /\ Deck' = d.deck
                 /\ PlayerHand' = AddCard(PlayerHand, d.card)
                 /\ IF IsBusted(PlayerHand')
                    THEN Phase' = PhaseGameOver /\ Result' = ResultDealerWin
                    ELSE UNCHANGED <<Phase, Result>>
                 /\ UNCHANGED <<DealerHand, Bet, IsDoubled, PlayerStood, deckExhausted>>

Hit ==
    /\ call' = [op |-> "Hit"]
    /\ IF ~hitAllowed
       THEN err' = ErrHitPhase /\ UNCHANGED <<gameVars, deckExhausted>>
       ELSE LET d == Draw(Deck) IN
            IF d.err # Nil
            THEN err' = d.err /\ UNCHANGED <<gameVars, deckExhausted>>
            ELSE /\ err' = Nil
                 /\ Deck' = d.deck
                 /\ PlayerHand' = AddCard(PlayerHand, d.card)
                 /\ IF IsBusted(PlayerHand')
                    THEN Phase' = PhaseGameOver /\ Result' = ResultDealerWin
                    ELSE UNCHANGED <<Phase, Result>>
                 /\ UNCHANGED <<DealerHand, Bet, IsDoubled, PlayerStood, deckExhausted>>

\* a bug: Stand opens the dealer's turn and returns before it is played
StandLeavesDealerTurn ==
    /\ call' = [op |-> "Stand"]
    /\ IF Phase # PhasePlayerTurn
       THEN err' = ErrStandPhase /\ UNCHANGED <<gameVars, deckExhausted>>
       ELSE /\ err' = Nil
            /\ PlayerStood' = TRUE
            /\ Phase' = PhaseDealerTurn
            /\ UNCHANGED <<Deck, PlayerHand, DealerHand, Bet, Result, IsDoubled,
                           deckExhausted>>

Stand ==
    /\ call' = [op |-> "Stand"]
    /\ IF Phase # PhasePlayerTurn
       THEN err' = ErrStandPhase /\ UNCHANGED <<gameVars, deckExhausted>>
       ELSE /\ err' = Nil
            /\ PlayerStood' = TRUE
            /\ playDealerTurn(Deck, PlayerHand, DealerHand)
            /\ UNCHANGED <<PlayerHand, Bet, IsDoubled>>

\* a bug: only a hand of fewer than two cards is turned away
notInitialHandOnlyShort == Len(PlayerHand) < 2

\* the hand check of DoubleDown: the player no longer holds just the two
\* cards of the deal
notInitialHand == Len(PlayerHand) # 2

\* a bug: a DoubleDown that does not bust leaves the turn with the player
DoubleDownKeepsTurn ==
    /\ call' = [op |-> "DoubleDown"]
    /\ IF Phase # PhasePlayerTurn
       THEN err' = ErrDoublePhase /\ UNCHANGED <<gameVars, deckExhausted>>
       ELSE IF notInitialHand
       THEN err' = ErrDoubleInitial /\ UNCHANGED <<gameVars, deckExhausted>>
       ELSE LET d == Draw(Deck) IN
            /\ Bet * 2 <= MaxStake
            /\ Bet' = Bet * 2
            /\ IsDoubled' = TRUE
            /\ err' = d.err
            /\ IF d.err # Nil
               THEN UNCHANGED <<Deck, PlayerHand, Phase, Result>>
               ELSE /\ PlayerHand' = AddCard(PlayerHand, d.card)
                    /\ Deck' = d.deck
                    /\ IF IsBusted(PlayerHand')
                       THEN Phase' = PhaseGameOver /\ Result' = ResultDealerWin
                       ELSE UNCHANGED <<Phase, Result>>
            /\ UNCHANGED <<DealerHand, PlayerStood, deckExhausted>>

\* a bug: the stake is left as it was placed
DoubleDownKeepsBet ==
    /\ call' = [op |-> "DoubleDown"]
    /\ IF Phase # PhasePlayerTurn
       THEN err' = ErrDoublePhase /\ UNCHANGED <<gameVars, deckExhausted>>
       ELSE IF notInitialHand
       THEN err' = ErrDoubleInitial /\ UNCHANGED <<gameVars, deckExhausted>>
       ELSE LET d == Draw(Deck) IN
            /\ IsDoubled' = TRUE
            /\ err' = d.err
            /\ IF d.err # Nil
               THEN UNCHANGED <<Deck, PlayerHand, DealerHand, Phase, Result, deckExhausted>>
               ELSE /\ PlayerHand' = AddCard(PlayerHand, d.card)
                    /\ IF IsBusted(PlayerHand')
                       THEN /\ Phase' = PhaseGameOver
                            /\ Result' = ResultDealerWin
                            /\ Deck' = d.deck
                            /\ UNCHANGED <<DealerHand, deckExhausted>>
                       ELSE playDealerTurn(d.deck, PlayerHand', DealerHand)
            /\ UNCHANGED <<Bet, PlayerStood>>

DoubleDown ==
    /\ call' = [op |-> "DoubleDown"]
    /\ IF Phase # PhasePlayerTurn
       THEN err' = ErrDoublePhase /\ UNCHANGED <<gameVars, deckExhausted>>
       ELSE IF notInitialHand
       THEN err' = ErrDoubleInitial /\ UNCHANGED <<gameVars, deckExhausted>>
       ELSE LET d == Draw(Deck) IN
            /\ Bet * 2 <= MaxStake
            /\ Bet' = Bet * 2
            /\ IsDoubled' = TRUE
            /\ err' = d.err
            /\ IF d.err # Nil
               THEN UNCHANGED <<Deck, PlayerHand, DealerHand, Phase, Result, deckExhausted>>
               ELSE /\ PlayerHand' = AddCard(PlayerHand, d.card)
                    /\ IF IsBusted(PlayerHand')
                       THEN /\ Phase' = PhaseGameOver
                            /\ Result' = ResultDealerWin
                            /\ Deck' = d.deck
                            /\ UNCHANGED <<DealerHand, deckExhausted>>
                       ELSE playDealerTurn(d.deck, PlayerHand', DealerHand)
            /\ UNCHANGED PlayerStood

\* no account, no session, no connection: the engine used on its own
noServer ==
    /\ users = <<>>
    /\ userStats = <<>>
    /\ sessions = {}
    /\ issued = 0
    /\ now = 0
    /\ clients = <<>>
    /\ response = <<>>
    /\ ledger = noLedger

\* a Game on its own
InitGame == Init /\ noServer

Next ==
    \/ \E amount \in Amounts : PlaceBet(amount) /\ UNCHANGED storeVars
    \/ \E amount \in Amounts : PlaceBetNoShuffle(amount) /\ UNCHANGED storeVars
    \/ Hit /\ UNCHANGED storeVars
    \/ Stand /\ UNCHANGED storeVars
    \/ DoubleDown /\ UNCHANGED storeVars

Spec == InitGame /\ [][Next]_vars

----------------------------------------------------------------------------
(* The methods that read the Game.  A call leaves the Game as it is; the    *)
(* value it returns is kept in call.ret.                                    *)

\* Go's integer division, which truncates toward zero
quot(a, b) == IF a >= 0 THEN a \div b ELSE -((-a) \div b)

\* a bug: the 3:2 bonus is taken on half the bet, truncated before the product
CalculatePayoutHalvesFirst(bet, result) ==
    CASE result = ResultPlayerBlackjack -> bet + quot(bet, 2) * 3
      [] result = ResultPlayerWin -> bet * 2
      [] result = ResultPush -> bet
      [] result = ResultDealerWin -> 0
      [] OTHER -> 0

CalculatePayout(bet, result) ==
    CASE result = ResultPlayerBlackjack -> bet + quot(bet * 3, 2)
      [] result = ResultPlayerWin -> bet * 2
      [] result = ResultPush -> bet
      [] result = ResultDealerWin -> 0
      [] OTHER -> 0

\* a call of CalculatePayout
CalculatePayoutCall ==
    /\ call' = [op |-> "CalculatePayout", ret |-> CalculatePayout(Bet, Result)]
    /\ err' = Nil
    /\ UNCHANGED <<gameVars, deckExhausted>>

\* GetValidActions: the actions in the order the slice holds them
GetValidActions ==
    IF Phase # PhasePlayerTurn
    THEN <<>>
    ELSE IF Len(PlayerHand) = 2 /\ ~IsDoubled
    THEN <<"HIT", "STAND", "DOUBLEDOWN">>
    ELSE <<"HIT", "STAND">>

\* a call of GetValidActions
GetValidActionsCall ==
    /\ call' = [op |-> "GetValidActions", ret |-> GetValidActions]
    /\ err' = Nil
    /\ UNCHANGED <<gameVars, deckExhausted>>

\* the decimal digits of a natural number, as %d prints them
decimalDigits == <<"0", "1", "2", "3", "4", "5", "6", "7", "8", "9">>

RECURSIVE formatInt(_)
formatInt(n) ==
    IF n < 0 THEN "-" \o formatInt(-n)
    ELSE IF n < 10 THEN decimalDigits[n + 1]
    ELSE formatInt(n \div 10) \o decimalDigits[(n % 10) + 1]

\* fmt.Sprintf("%.2f", float64(cents)/100): units, a point, two digits
formatMoney(cents) ==
    LET n == IF cents < 0 THEN -cents ELSE cents IN
    (IF cents < 0 THEN "-" ELSE "") \o formatInt(n \div 100) \o "."
        \o decimalDigits[((n % 100) \div 10) + 1] \o decimalDigits[(n % 10) + 1]

\* Hand.String: the cards in brackets, joined by single spaces
RECURSIVE HandString(_)
HandString(h) ==
    IF h = <<>> THEN ""
    ELSE "[" \o Head(h).Rank \o Head(h).Suit \o "]"
         \o (IF Tail(h) = <<>> THEN "" ELSE " " \o HandString(Tail(h)))

getResultMessage(g) ==
    CASE g.Result = ResultPlayerBlackjack -> "Blackjack! You win!"
      [] g.Result = ResultPlayerWin -> "You win!"
      [] g.Result = ResultDealerWin ->
            IF IsBusted(g.PlayerHand) THEN "Bust! Dealer wins." ELSE "Dealer wins."
      [] g.Result = ResultPush -> "Push - tie game."
      [] OTHER -> ""

\* the fields of the Game that GetGameState reads
thisGame ==
    [Bet |-> Bet, PlayerHand |-> PlayerHand, DealerHand |-> DealerHand,
     Phase |-> Phase, Result |-> Result]

\* a bug: the hidden line still prints the value of the whole dealer hand
GetGameStateLeaksValue(g, hideDealer) ==
    "Bet: $" \o formatMoney(g.Bet) \o "\n"
    \o (IF Len(g.PlayerHand) = 0
        THEN "Player Hand: (no cards dealt)\n"
        ELSE "Player Hand: " \o HandString(g.PlayerHand)
             \o " (Value: " \o formatInt(Value(g.PlayerHand)) \o ")\n")
    \o (IF Len(g.DealerHand) = 0
        THEN "Dealer Hand: (no cards dealt)\n"
        ELSE IF hideDealer /\ g.Phase = PhasePlayerTurn
        THEN "Dealer Hand: [" \o g.DealerHand[1].Rank \o g.DealerHand[1].Suit \o "] [Hidden]"
             \o " (Value: " \o formatInt(Value(g.DealerHand)) \o ")\n"
        ELSE "Dealer Hand: " \o HandString(g.DealerHand)
             \o " (Value: " \o formatInt(Value(g.DealerHand)) \o ")\n")
    \o (IF g.Phase = PhaseGameOver
        THEN "\nResult: " \o getResultMessage(g) \o "\n"
             \o "Payout: $" \o formatMoney(CalculatePayout(g.Bet, g.Result)) \o "\n"
        ELSE "")

\* a bug: the result and the payout are printed in every phase
GetGameStateAlwaysResult(g, hideDealer) ==
    "Bet: $" \o formatMoney(g.Bet) \o "\n"
    \o (IF Len(g.PlayerHand) = 0
        THEN "Player Hand: (no cards dealt)\n"
        ELSE "Player Hand: " \o HandString(g.PlayerHand)
             \o " (Value: " \o formatInt(Value(g.PlayerHand)) \o ")\n")
    \o (IF Len(g.DealerHand) = 0
        THEN "Dealer Hand: (no cards dealt)\n"
        ELSE IF hideDealer /\ g.Phase = PhasePlayerTurn
        THEN "Dealer Hand: [" \o g.DealerHand[1].Rank \o g.DealerHand[1].Suit \o "] [Hidden]\n"
        ELSE "Dealer Hand: " \o HandString(g.DealerHand)
             \o " (Value: " \o formatInt(Value(g.DealerHand)) \o ")\n")
    \o "\nResult: " \o getResultMessage(g) \o "\n"
    \o "Payout: $" \o formatMoney(CalculatePayout(g.Bet, g.Result)) \o "\n"

\* GetGameState: the text shown to the player
GetGameState(g, hideDealer) ==
    "Bet: $" \o formatMoney(g.Bet) \o "\n"
    \o (IF Len(g.PlayerHand) = 0
        THEN "Player Hand: (no cards dealt)\n"
        ELSE "Player Hand: " \o HandString(g.PlayerHand)
             \o " (Value: " \o formatInt(Value(g.PlayerHand)) \o ")\n")
    \o (IF Len(g.DealerHand) = 0
        THEN "Dealer Hand: (no cards dealt)\n"
        ELSE IF hideDealer /\ g.Phase = PhasePlayerTurn
        THEN "Dealer Hand: [" \o g.DealerHand[1].Rank \o g.DealerHand[1].Suit \o "] [Hidden]\n"
        ELSE "Dealer Hand: " \o HandString(g.DealerHand)
             \o " (Value: " \o formatInt(Value(g.DealerHand)) \o ")\n")
    \o (IF g.Phase = PhaseGameOver
        THEN "\nResult: " \o getResultMessage(g) \o "\n"
             \o "Payout: $" \o formatMoney(CalculatePayout(g.Bet, g.Result)) \o "\n"
        ELSE "")

\* a call of GetGameState
GetGameStateCall(hideDealer) ==
    /\ call' = [op |-> "GetGameState", hideDealer |-> hideDealer,
                ret |-> GetGameState(thisGame, hideDealer)]
    /\ err' = Nil
    /\ UNCHANGED <<gameVars, deckExhausted>>

NextQuery ==
    \/ Next
    \/ CalculatePayoutCall /\ UNCHANGED storeVars
    \/ GetValidActionsCall /\ UNCHANGED storeVars
    \/ \E hideDealer \in BOOLEAN : GetGameStateCall(hideDealer) /\ UNCHANGED storeVars

\* the engine with the reading methods called at any point
SpecQuery == InitGame /\ [][NextQuery]_vars

----------------------------------------------------------------------------
(* Surrender.  The integration tests call Game.Surrender and compare with
   ResultSurrender, and the README lists SURRENDER among the actions, but the
   method and the result are not in blackjack.go; they are modelled from the
   specification's action table. *)

ResultSurrender == "SURRENDER"
ErrSurrenderPhase == "can only surrender during player turn"
ErrSurrenderInitial == "can only surrender on initial hand"

\* a slip: Surrender plays the hand out like Stand
SurrenderPlaysDealer ==
    /\ call' = [op |-> "Surrender"]
    /\ IF Phase # PhasePlayerTurn
       THEN err' = ErrSurrenderPhase /\ UNCHANGED <<gameVars, deckExhausted>>
       ELSE IF Len(PlayerHand) # 2
       THEN err' = ErrSurrenderInitial /\ UNCHANGED <<gameVars, deckExhausted>>
       ELSE /\ err' = Nil
            /\ playDealerTurn(Deck, PlayerHand, DealerHand)
            /\ UNCHANGED <<PlayerHand, Bet, IsDoubled, PlayerStood>>

Surrender ==
    /\ call' = [op |-> "Surrender"]
    /\ IF Phase # PhasePlayerTurn
       THEN err' = ErrSurrenderPhase /\ UNCHANGED <<gameVars, deckExhausted>>
       ELSE IF Len(PlayerHand) # 2
       THEN err' = ErrSurrenderInitial /\ UNCHANGED <<gameVars, deckExhausted>>
       ELSE /\ err' = Nil
            /\ Phase' = PhaseGameOver
            /\ Result' = ResultSurrender
            /\ UNCHANGED <<Deck, PlayerHand, DealerHand, Bet, IsDoubled, PlayerStood, deckExhausted>>

NextSurrender ==
    \/ Next
    \/ Surrender /\ UNCHANGED storeVars

\* the engine with Surrender among the player's actions
SpecSurrender == InitGame /\ [][NextSurrender]_vars

----------------------------------------------------------------------------
(* A Hand on its own: cards added one at a time, its value read at any point *)

MaxHand == 4

\* the cards added to the hand: the four Aces, a ten-valued card, a 9 and a 5
HandCards == {Card("A", "S"), Card("A", "H"), Card("A", "D"), Card("A", "C"),
              Card("K", "S"), Card("9", "C"), Card("5", "D")}

\* the hand as NewHand returns it, held in PlayerHand; the rest of the Game
\* stays as it is before any bet
InitHand ==
    /\ Deck = <<>>
    /\ PlayerHand = <<>>
    /\ DealerHand = <<>>
    /\ Phase = PhaseWaitingForBet
    /\ Bet = 0
    /\ Result = ResultNone
    /\ IsDoubled = FALSE
    /\ PlayerStood = FALSE
    /\ call = [op |-> "NewHand"]
    /\ err = Nil
    /\ deckExhausted = FALSE

\* PlayerHand.AddCard(card)
AddCardCall(card) ==
    /\ Len(PlayerHand) < MaxHand
    /\ PlayerHand' = AddCard(PlayerHand, card)
    /\ call' = [op |-> "AddCard"]
    /\ err' = Nil
    /\ UNCHANGED <<Deck, DealerHand, Phase, Bet, Result, IsDoubled, PlayerStood, deckExhausted>>

\* PlayerHand.Value()
ValueCall ==
    /\ call' = [op |-> "Value", ret |-> Value(PlayerHand)]
    /\ err' = Nil
    /\ UNCHANGED <<gameVars, deckExhausted>>

\* PlayerHand.String()
StringCall ==
    /\ call' = [op |-> "String", ret |-> HandString(PlayerHand)]
    /\ err' = Nil
    /\ UNCHANGED <<gameVars, deckExhausted>>

NextHand ==
    \/ \E card \in HandCards : AddCardCall(card) /\ UNCHANGED storeVars
    \/ ValueCall /\ UNCHANGED storeVars
    \/ StringCall /\ UNCHANGED storeVars

\* a Hand on its own
InitHandAlone == InitHand /\ noServer

SpecHand == InitHandAlone /\ [][NextHand]_vars

----------------------------------------------------------------------------
(* A Game over the full deck: NewGame() deals from NewDeck(), unshuffled as
   long as only PlaceBetNoShuffle places the bets; before the first bet the
   caller may also draw from g.Deck itself. *)

\* NewGame()
NewGame ==
    /\ Deck = NewDeck
    /\ PlayerHand = <<>>
    /\ DealerHand = <<>>
    /\ Phase = PhaseWaitingForBet
    /\ Bet = 0
    /\ Result = ResultNone
    /\ IsDoubled = FALSE
    /\ PlayerStood = FALSE
    /\ call = [op |-> "NewGame"]
    /\ err = Nil
    /\ deckExhausted = FALSE

InitDeck == NewGame /\ noServer

\* g = NewGame(): the Game is replaced by a new one
NewGameCall ==
    /\ Deck' = NewDeck
    /\ PlayerHand' = <<>>
    /\ DealerHand' = <<>>
    /\ Phase' = PhaseWaitingForBet
    /\ Bet' = 0
    /\ Result' = ResultNone
    /\ IsDoubled' = FALSE
    /\ PlayerStood' = FALSE
    /\ call' = [op |-> "NewGame"]
    /\ err' = Nil
    /\ deckExhausted' = FALSE

\* g.Deck.Draw(), called on a Game that has not had a bet yet
DrawCall ==
    /\ Phase = PhaseWaitingForBet
    /\ call' = [op |-> "Draw", card |-> Draw(Deck).card, before |-> Deck]
    /\ err' = Draw(Deck).err
    /\ Deck' = Draw(Deck).deck
    /\ UNCHANGED <<PlayerHand, DealerHand, Phase, Bet, Result, IsDoubled, PlayerStood,
                   deckExhausted>>

NextDeck ==
    \/ NewGameCall /\ UNCHANGED storeVars
    \/ DrawCall /\ UNCHANGED storeVars
    \/ \E amount \in Amounts : PlaceBetNoShuffle(amount) /\ UNCHANGED storeVars
    \/ Hit /\ UNCHANGED storeVars
    \/ Stand /\ UNCHANGED storeVars
    \/ DoubleDown /\ UNCHANGED storeVars

SpecDeck == InitDeck /\ [][NextDeck]_vars

----------------------------------------------------------------------------
(* The dealer's turn one iteration at a time.  Stand and DoubleDown set
   DEALER_TURN and call playDealerTurn; while its loop runs no other call is
   made on the Game, and the goroutine that made the call keeps running it.
   call keeps the call in progress, with the cards the deck and the dealer
   held when the loop was entered. *)

\* Stand up to the call of playDealerTurn
StandBegin ==
    /\ Phase # PhaseDealerTurn
    /\ IF Phase # PhasePlayerTurn
       THEN /\ call' = [op |-> "Stand", deck |-> 0, dealer |-> 0]
            /\ err' = ErrStandPhase
            /\ UNCHANGED <<gameVars, deckExhausted>>
       ELSE /\ call' = [op |-> "Stand", deck |-> Len(Deck), dealer |-> Len(DealerHand)]
            /\ err' = Nil
            /\ PlayerStood' = TRUE
            /\ Phase' = PhaseDealerTurn
            /\ UNCHANGED <<Deck, PlayerHand, DealerHand, Bet, Result, IsDoubled,
                           deckExhausted>>

\* DoubleDown up to the call of playDealerTurn
DoubleDownBegin ==
    /\ Phase # PhaseDealerTurn
    /\ IF Phase # PhasePlayerTurn
       THEN /\ call' = [op |-> "DoubleDown", deck |-> 0, dealer |-> 0]
            /\ err' = ErrDoublePhase
            /\ UNCHANGED <<gameVars, deckExhausted>>
       ELSE IF notInitialHand
       THEN /\ call' = [op |-> "DoubleDown", deck |-> 0, dealer |-> 0]
            /\ err' = ErrDoubleInitial
            /\ UNCHANGED <<gameVars, deckExhausted>>
       ELSE LET d == Draw(Deck) IN
            /\ Bet * 2 <= MaxStake
            /\ call' = [op |-> "DoubleDown", deck |-> Len(d.deck),
                        dealer |-> Len(DealerHand)]
            /\ Bet' = Bet * 2
            /\ IsDoubled' = TRUE
            /\ err' = d.err
            /\ IF d.err # Nil
               THEN UNCHANGED <<Deck, PlayerHand, Phase, Result>>
               ELSE /\ PlayerHand' = AddCard(PlayerHand, d.card)
                    /\ Deck' = d.deck
                    /\ IF IsBusted(PlayerHand')
                       THEN Phase' = PhaseGameOver /\ Result' = ResultDealerWin
                       ELSE Phase' = PhaseDealerTurn /\ UNCHANGED Result
            /\ UNCHANGED <<DealerHand, PlayerStood, deckExhausted>>

\* a bug: a failed draw is tried again instead of ending the round
playDealerTurnStepRetries ==
    /\ Phase = PhaseDealerTurn
    /\ IF dealerMustDraw(DealerHand)
       THEN LET d == Draw(Deck) IN
            IF d.err # Nil
            THEN UNCHANGED <<Deck, DealerHand, Phase, Result, deckExhausted>>
            ELSE /\ Deck' = d.deck
                 /\ DealerHand' = AddCard(DealerHand, d.card)
                 /\ UNCHANGED <<Phase, Result, deckExhausted>>
       ELSE /\ Phase' = PhaseGameOver
            /\ Result' = determineWinner(PlayerHand, DealerHand)
            /\ UNCHANGED <<Deck, DealerHand, deckExhausted>>
    /\ UNCHANGED <<PlayerHand, Bet, IsDoubled, PlayerStood, call, err>>

\* playDealerTurn: one test of the loop condition and what follows it
playDealerTurnStep ==
    /\ Phase = PhaseDealerTurn
    /\ IF dealerMustDraw(DealerHand)
       THEN LET d == Draw(Deck) IN
            IF d.err # Nil
            THEN /\ Phase' = PhaseGameOver
                 /\ Result' = ResultPush
                 /\ deckExhausted' = TRUE
                 /\ UNCHANGED <<Deck, DealerHand>>
            ELSE /\ Deck' = d.deck
                 /\ DealerHand' = AddCard(DealerHand, d.card)
                 /\ UNCHANGED <<Phase, Result, deckExhausted>>
       ELSE /\ Phase' = PhaseGameOver
            /\ Result' = determineWinner(PlayerHand, DealerHand)
            /\ UNCHANGED <<Deck, DealerHand, deckExhausted>>
    /\ UNCHANGED <<PlayerHand, Bet, IsDoubled, PlayerStood, call, err>>

\* the step of the dealer's turn, nothing else moving
dealerTurnStep == playDealerTurnStep /\ UNCHANGED storeVars

NextDealerTurn ==
    \/ \E amount \in Amounts :
          Phase # PhaseDealerTurn /\ PlaceBetNoShuffle(amount) /\ UNCHANGED storeVars
    \/ Phase # PhaseDealerTurn /\ Hit /\ UNCHANGED storeVars
    \/ StandBegin /\ UNCHANGED storeVars
    \/ DoubleDownBegin /\ UNCHANGED storeVars
    \/ dealerTurnStep

\* the call in progress goes on running
SpecDealerTurn == InitGame /\ [][NextDealerTurn]_vars /\ WF_vars(dealerTurnStep)

----------------------------------------------------------------------------
(* The account store (core/vault) and the authentication service
   (core/security).  A row of users is a User, a row of sessions a Session,
   a row of user_stats a UserStats.  The clock counts in days. *)

\* last value of the clock
MaxTime == 2

\* most session ids generated
MaxSessions == 2

\* the balance a new row of users gets
DefaultBalance == 100000

MinUsernameAndPasswordLength == 2

MaxUsernameAndPasswordLength == 30

\* 24 hours
SessionDuration == 1

\* no User, no Session
NoUser == [ID |-> 0]

\* the characters of ^[a-zA-Z0-9_]+$
wordCharacters ==
    {"a", "b", "c", "d", "e", "f", "g", "h", "i", "j", "k", "l", "m", "n", "o", "p", "q",
     "r", "s", "t", "u", "v", "w", "x", "y", "z", "A", "B", "C", "D", "E", "F", "G", "H",
     "I", "J", "K", "L", "M", "N", "O", "P", "Q", "R", "S", "T", "U", "V", "W", "X", "Y",
     "Z", "0", "1", "2", "3", "4", "5", "6", "7", "8", "9", "_"}

\* the error of ValidateUsername, Nil when the name passes
ValidateUsername(username) ==
    IF Len(username) < MinUsernameAndPasswordLength
    THEN "username must be at least " \o formatInt(MinUsernameAndPasswordLength)
         \o " characters long"
    ELSE IF Len(username) > MaxUsernameAndPasswordLength
    THEN "username must be no more than " \o formatInt(MaxUsernameAndPasswordLength)
         \o " characters long"
    ELSE IF \E i \in 1..Len(username) : SubSeq(username, i, i) \in {" ", "\t", "\n"}
    THEN "username cannot contain whitespace"
    ELSE IF \E i \in 1..Len(username) : SubSeq(username, i, i) \notin wordCharacters
    THEN "username can only contain letters, numbers, and underscores"
    ELSE Nil

ValidatePassword(password) ==
    IF Len(password) < MinUsernameAndPasswordLength
    THEN "password must be at least " \o formatInt(MinUsernameAndPasswordLength)
         \o " characters long"
    ELSE IF Len(password) > MaxUsernameAndPasswordLength
    THEN "password must be no more than " \o formatInt(MaxUsernameAndPasswordLength)
         \o " characters long"
    ELSE IF \E i \in 1..Len(password) : SubSeq(password, i, i) \in {" ", "\t", "\n"}
    THEN "password cannot contain whitespace"
    ELSE IF \E i \in 1..Len(password) : SubSeq(password, i, i) \notin wordCharacters
    THEN "password can only contain letters, numbers, and underscores"
    ELSE Nil

ValidatePasswordWithUsername(password, username) ==
    IF ValidatePassword(password) # Nil THEN ValidatePassword(password)
    ELSE IF password = username THEN "password cannot be the same as username"
    ELSE Nil

\* the bcrypt hash of a password, told apart from the password itself; only
\* the password it was made from verifies against it
HashPassword(password) == [bcrypt |-> password]

VerifyPassword(password, hash) ==
    IF hash.bcrypt = password THEN Nil ELSE "invalid password"

\* the session id GenerateSessionID returns when n ids were generated before:
\* a UUID, never one returned before
GenerateSessionID(n) == "session-" \o formatInt(n + 1)

GetSessionExpiry == now + SessionDuration

\* SELECT ... FROM users WHERE username = ?
GetUserByUsername(username) ==
    IF \E i \in 1..Len(users) : users[i].Username = username
    THEN [user |-> users[CHOOSE i \in 1..Len(users) : users[i].Username = username],
          err |-> Nil]
    ELSE [user |-> NoUser, err |-> "user not found"]

\* SELECT ... FROM users WHERE id = ?
GetUserByID(id) ==
    IF id \in 1..Len(users)
    THEN [user |-> users[id], err |-> Nil]
    ELSE [user |-> NoUser, err |-> "user not found"]

\* SELECT ... FROM sessions WHERE id = ? AND expires_at > CURRENT_TIMESTAMP
GetSession(sessionID) ==
    IF \E r \in sessions : r.ID = sessionID /\ r.ExpiresAt > now
    THEN [session |-> CHOOSE r \in sessions : r.ID = sessionID /\ r.ExpiresAt > now,
          err |-> Nil]
    ELSE [session |-> [ID |-> "", UserID |-> 0, ExpiresAt |-> 0],
          err |-> "session not found or expired"]

\* SELECT ... FROM user_stats WHERE user_id = ?
GetUserStats(userID) ==
    IF userID \in 1..Len(userStats)
    THEN [stats |-> userStats[userID], err |-> Nil]
    ELSE [stats |-> [UserID |-> 0], err |-> "user stats not found"]

\* the row initUserStats inserts: every column at its default
initUserStats(userID) ==
    [UserID |-> userID, GamesPlayed |-> 0, GamesWon |-> 0, GamesLost |-> 0,
     TotalBet |-> 0, TotalWon |-> 0, BiggestWin |-> 0, BiggestLoss |-> 0]

\* the row CreateUser inserts: the next id, the balance at its default
CreateUser(username, hashedPassword) ==
    [ID |-> Len(users) + 1, Username |-> username, Password |-> hashedPassword,
     Balance |-> DefaultBalance]

\* AuthService.ValidateSession: the User of a session that has not expired
ValidateSession(sessionID) ==
    IF GetSession(sessionID).err # Nil
    THEN [user |-> NoUser, err |-> "invalid or expired session"]
    ELSE IF GetUserByID(GetSession(sessionID).session.UserID).err # Nil
    THEN [user |-> NoUser, err |-> "user not found"]
    ELSE [user |-> GetUserByID(GetSession(sessionID).session.UserID).user, err |-> Nil]

\* a slip: the error says which of the two checks failed
LoginUserTellsCause(username, password) ==
    IF GetUserByUsername(username).err # Nil
    THEN [user |-> NoUser, err |-> GetUserByUsername(username).err]
    ELSE IF VerifyPassword(password, GetUserByUsername(username).user.Password) # Nil
    THEN [user |-> NoUser,
          err |-> VerifyPassword(password, GetUserByUsername(username).user.Password)]
    ELSE [user |-> GetUserByUsername(username).user, err |-> Nil]

\* AuthService.LoginUser: the error, or the User the new session is for
LoginUser(username, password) ==
    IF GetUserByUsername(username).err # Nil
    THEN [user |-> NoUser, err |-> "invalid username or password"]
    ELSE IF VerifyPassword(password, GetUserByUsername(username).user.Password) # Nil
    THEN [user |-> NoUser, err |-> "invalid username or password"]
    ELSE [user |-> GetUserByUsername(username).user, err |-> Nil]

\* AuthService.RegisterUser: the error, Nil when the account is created
RegisterUser(username, password) ==
    IF ValidateUsername(username) # Nil THEN ValidateUsername(username)
    ELSE IF ValidatePasswordWithUsername(password, username) # Nil
    THEN ValidatePasswordWithUsername(password, username)
    ELSE IF GetUserByUsername(username).err = Nil THEN "username already exists"
    ELSE Nil

\* a slip: the amount is added to the balance instead of replacing it
UpdateUserBalanceAdds(userID, newBalance) ==
    [users EXCEPT ![userID].Balance = @ + newBalance]

\* UPDATE users SET balance = ? WHERE id = ?: the table after the update
UpdateUserBalance(userID, newBalance) ==
    [users EXCEPT ![userID].Balance = newBalance]

\* a slip: games_lost is missing from the SET list
UpdateUserStatsKeepsLost(stats) ==
    [userStats EXCEPT ![stats.UserID] =
        [stats EXCEPT !.GamesLost = userStats[stats.UserID].GamesLost]]

\* UPDATE user_stats SET ... WHERE user_id = ?: the table after the update
UpdateUserStats(stats) ==
    [userStats EXCEPT ![stats.UserID] = stats]

----------------------------------------------------------------------------
(* The server (cmd/server): one ClientState per connection, one command per
   step.  A command is the first word of the line in upper case, args the
   words after it; call records the command handled last and the connection
   it came from. *)

\* the connections
Conns == {1, 2}

\* the arguments a SIGNUP or LOGIN line carries: none, or a name and a
\* password; the name "x" is too short, the password "al" is the name of al
\* and so never the password of al
ArgLists == {<<>>, <<"al", "pw">>, <<"al", "al">>, <<"bo", "pw">>, <<"x", "pw">>}

\* commands that handleCommand has no case for
OtherCommands == {"BET", "DEAL"}

closedClient == [open |-> FALSE, sessionID |-> "", user |-> NoUser]

newClient == [open |-> TRUE, sessionID |-> "", user |-> NoUser]

\* no Game is played: every field as the zero Game has it
noGame ==
    /\ Deck = <<>>
    /\ PlayerHand = <<>>
    /\ DealerHand = <<>>
    /\ Phase = PhaseWaitingForBet
    /\ Bet = 0
    /\ Result = ResultNone
    /\ IsDoubled = FALSE
    /\ PlayerStood = FALSE
    /\ call = [op |-> "main"]
    /\ err = Nil
    /\ deckExhausted = FALSE

\* main: the tables created empty, no connection accepted yet
InitServer ==
    /\ noGame
    /\ users = <<>>
    /\ userStats = <<>>
    /\ sessions = {}
    /\ issued = 0
    /\ now = 0
    /\ clients = [c \in Conns |-> closedClient]
    /\ response = <<>>
    /\ ledger = noLedger

writeResponse(c, message) == response' = [conn |-> c, text |-> message]

\* fmt.Sprintf("%.1f", rate) of won / played * 100
formatRate(won, played) ==
    LET tenths == IF played > 0 THEN (won * 2000 + played) \div (2 * played) ELSE 0
    IN formatInt(tenths \div 10) \o "." \o decimalDigits[(tenths % 10) + 1]

\* the connection is accepted: a new ClientState and the greeting
handleClient(c) ==
    /\ ~clients[c].open
    /\ call' = [op |-> "connect", conn |-> c]
    /\ clients' = [clients EXCEPT ![c] = newClient]
    /\ writeResponse(c, "OK Welcome to Casino! Use SIGNUP <username> <password> or LOGIN <username> <password>")
    /\ UNCHANGED <<users, userStats, sessions, issued, now>>

handleSignup(c, args) ==
    IF Len(args) # 2
    THEN /\ writeResponse(c, "ERROR Usage: SIGNUP <username> <password>")
         /\ UNCHANGED <<users, userStats, sessions, issued, now, clients>>
    ELSE IF RegisterUser(args[1], args[2]) # Nil
    THEN /\ writeResponse(c, "ERROR " \o RegisterUser(args[1], args[2]))
         /\ UNCHANGED <<users, userStats, sessions, issued, now, clients>>
    ELSE LET user == CreateUser(args[1], HashPassword(args[2])) IN
         /\ users' = Append(users, user)
         /\ userStats' = Append(userStats, initUserStats(user.ID))
         /\ writeResponse(c, "OK Account created for " \o user.Username
                             \o " with balance $" \o formatMoney(user.Balance))
         /\ UNCHANGED <<sessions, issued, now, clients>>

handleLogin(c, args) ==
    IF Len(args) # 2
    THEN /\ writeResponse(c, "ERROR Usage: LOGIN <username> <password>")
         /\ UNCHANGED <<users, userStats, sessions, issued, now, clients>>
    ELSE IF LoginUser(args[1], args[2]).err # Nil
    THEN /\ writeResponse(c, "ERROR " \o LoginUser(args[1], args[2]).err)
         /\ UNCHANGED <<users, userStats, sessions, issued, now, clients>>
    ELSE LET user == LoginUser(args[1], args[2]).user
             sessionID == GenerateSessionID(issued)
         IN /\ issued < MaxSessions
            /\ issued' = issued + 1
            /\ sessions' = sessions \cup
                  {[ID |-> sessionID, UserID |-> user.ID, ExpiresAt |-> GetSessionExpiry]}
            /\ clients' = [clients EXCEPT ![c].sessionID = sessionID, ![c].user = user]
            /\ writeResponse(c, "OK Welcome back, " \o user.Username
                                \o "! Balance: $" \o formatMoney(user.Balance))
            /\ UNCHANGED <<users, userStats, now>>

\* a slip: the WHERE clause is missing
DeleteSessionDeletesAll(sessionID) == {}

\* DELETE FROM sessions WHERE id = ?
DeleteSession(sessionID) == {r \in sessions : r.ID # sessionID}

handleLogout(c) ==
    IF clients[c].sessionID = ""
    THEN /\ writeResponse(c, "ERROR Not logged in")
         /\ UNCHANGED <<users, userStats, sessions, issued, now, clients>>
    ELSE /\ sessions' = DeleteSession(clients[c].sessionID)
         /\ clients' = [clients EXCEPT ![c].sessionID = "", ![c].user = NoUser]
         /\ writeResponse(c, "OK Logged out successfully")
         /\ UNCHANGED <<users, userStats, issued, now>>

handleBalance(c) ==
    IF clients[c].user = NoUser
    THEN /\ writeResponse(c, "ERROR Please login first")
         /\ UNCHANGED <<users, userStats, sessions, issued, now, clients>>
    ELSE IF ValidateSession(clients[c].sessionID).err # Nil
    THEN /\ writeResponse(c, "ERROR Session expired, please login again")
         /\ clients' = [clients EXCEPT ![c].sessionID = "", ![c].user = NoUser]
         /\ UNCHANGED <<users, userStats, sessions, issued, now>>
    ELSE LET user == ValidateSession(clients[c].sessionID).user IN
         /\ clients' = [clients EXCEPT ![c].user = user]
         /\ writeResponse(c, "OK Balance: $" \o formatMoney(user.Balance))
         /\ UNCHANGED <<users, userStats, sessions, issued, now>>

handleStats(c) ==
    /\ IF clients[c].user = NoUser
       THEN writeResponse(c, "ERROR Please login first")
       ELSE IF GetUserStats(clients[c].user.ID).err # Nil
       THEN writeResponse(c, "ERROR Failed to get stats: " \o GetUserStats(clients[c].user.ID).err)
       ELSE LET stats == GetUserStats(clients[c].user.ID).stats IN
            writeResponse(c,
                "OK Stats for " \o clients[c].user.Username \o ":\n"
                \o "  Games Played: " \o formatInt(stats.GamesPlayed) \o "\n"
                \o "  Games Won: " \o formatInt(stats.GamesWon) \o "\n"
                \o "  Games Lost: " \o formatInt(stats.GamesLost) \o "\n"
                \o "  Win Rate: " \o formatRate(stats.GamesWon, stats.GamesPlayed) \o "%\n"
                \o "  Total Bet: $" \o formatMoney(stats.TotalBet) \o "\n"
                \o "  Total Won: $" \o formatMoney(stats.TotalWon) \o "\n"
                \o "  Net: $" \o formatMoney(stats.TotalWon - stats.TotalBet) \o "\n"
                \o "  Biggest Win: $" \o formatMoney(stats.BiggestWin) \o "\n"
                \o "  Biggest Loss: $" \o formatMoney(stats.BiggestLoss))
    /\ UNCHANGED <<users, userStats, sessions, issued, now, clients>>

handleWhoami(c) ==
    /\ IF clients[c].user = NoUser
       THEN writeResponse(c, "ERROR Not logged in")
       ELSE writeResponse(c, "OK Logged in as: " \o clients[c].user.Username
                             \o " (ID: " \o formatInt(clients[c].user.ID)
                             \o ", Balance: $" \o formatMoney(clients[c].user.Balance) \o ")")
    /\ UNCHANGED <<users, userStats, sessions, issued, now, clients>>

handleHelp(c) ==
    /\ writeResponse(c,
          "OK Available commands:\n"
          \o "  SIGNUP <username> <password> - Create a new account\n"
          \o "  LOGIN <username> <password>  - Login to your account\n"
          \o "  LOGOUT                       - Logout from your account\n"
          \o "  BALANCE                      - Check your current balance\n"
          \o "  STATS                        - View your game statistics\n"
          \o "  WHOAMI                       - Show current login status\n"
          \o "  HELP                         - Show this help message\n"
          \o "  QUIT                         - Disconnect from server\n"
          \o "\nUsername & Password requirements:\n"
          \o "  - 2-30 characters long\n"
          \o "  - Letters, numbers, and underscores only\n"
          \o "  - No whitespace allowed\n"
          \o "  - Cannot be the same as username")
    /\ UNCHANGED <<users, userStats, sessions, issued, now, clients>>

\* the switch of handleCommand on a line read from an open connection
handleCommand(c, command, args) ==
    /\ clients[c].open
    /\ call' = [op |-> command, conn |-> c, args |-> args]
    /\ CASE command \in {"SIGNUP", "REGISTER"} -> handleSignup(c, args)
         [] command = "LOGIN" -> handleLogin(c, args)
         [] command = "LOGOUT" -> handleLogout(c)
         [] command = "BALANCE" -> handleBalance(c)
         [] command = "STATS" -> handleStats(c)
         [] command = "WHOAMI" -> handleWhoami(c)
         [] command \in {"QUIT", "EXIT"} ->
               /\ writeResponse(c, "OK Goodbye!")
               /\ clients' = [clients EXCEPT ![c] = closedClient]
               /\ UNCHANGED <<users, userStats, sessions, issued, now>>
         [] command = "HELP" -> handleHelp(c)
         [] OTHER ->
               /\ writeResponse(c, "ERROR Unknown command. Type HELP for available commands.")
               /\ UNCHANGED <<users, userStats, sessions, issued, now, clients>>

\* the hourly sweep: DELETE FROM sessions WHERE expires_at <= CURRENT_TIMESTAMP
\* a bug: the sweep deletes every session
CleanupExpiredSessionsDeletesAll ==
    /\ call' = [op |-> "CleanupExpiredSessions", deleted |-> sessions]
    /\ sessions' = {}
    /\ UNCHANGED <<users, userStats, issued, now, clients, response>>

CleanupExpiredSessions ==
    /\ call' = [op |-> "CleanupExpiredSessions",
                deleted |-> {r \in sessions : r.ExpiresAt <= now}]
    /\ sessions' = {r \in sessions : r.ExpiresAt > now}
    /\ UNCHANGED <<users, userStats, issued, now, clients, response>>

\* the database clock moves on
Tick ==
    /\ now < MaxTime
    /\ call' = [op |-> "Tick"]
    /\ now' = now + 1
    /\ UNCHANGED <<users, userStats, sessions, issued, clients, response>>

\* the server of cmd/server plays no Game; call is the last command handled
noGameStep == UNCHANGED <<gameVars, err, deckExhausted, ledger>>

NextServer ==
    \/ \E c \in Conns : handleClient(c) /\ noGameStep
    \/ \E c \in Conns, args \in ArgLists : handleCommand(c, "SIGNUP", args) /\ noGameStep
    \/ \E c \in Conns, args \in ArgLists : handleCommand(c, "LOGIN", args) /\ noGameStep
    \/ \E c \in Conns : handleCommand(c, "LOGOUT", <<>>) /\ noGameStep
    \/ \E c \in Conns : handleCommand(c, "BALANCE", <<>>) /\ noGameStep
    \/ \E c \in Conns : handleCommand(c, "STATS", <<>>) /\ noGameStep
    \/ \E c \in Conns : handleCommand(c, "WHOAMI", <<>>) /\ noGameStep
    \/ \E c \in Conns : handleCommand(c, "HELP", <<>>) /\ noGameStep
    \/ \E c \in Conns : handleCommand(c, "QUIT", <<>>) /\ noGameStep
    \/ \E c \in Conns, command \in OtherCommands :
          handleCommand(c, command, <<>>) /\ noGameStep
    \/ CleanupExpiredSessions /\ noGameStep
    \/ Tick /\ noGameStep

SpecServer == InitServer /\ [][NextServer]_allVars

----------------------------------------------------------------------------
(* SIGNUP with the connections' goroutines interleaved.  RegisterUser reads
   the users table (GetUserByUsername) and later writes it (CreateUser), two
   statements with no transaction around them, so another connection's
   statements can fall between them.  The connection's signup field holds the
   arguments of the RegisterUser call that has made its read and not yet its
   write.  The username column is UNIQUE: the INSERT of a name the table
   already has fails. *)

\* the arguments of the SIGNUP lines: those of ArgLists and a second password
\* for the name al
SignupLines == ArgLists \cup {<<"al", "pq">>}

idleClient == [open |-> TRUE, sessionID |-> "", user |-> NoUser, signup |-> <<>>]

InitSignup ==
    /\ noGame
    /\ users = <<>>
    /\ userStats = <<>>
    /\ sessions = {}
    /\ issued = 0
    /\ now = 0
    /\ clients = [c \in Conns |-> idleClient]
    /\ response = <<>>
    /\ ledger = noLedger

\* handleSignup and RegisterUser up to the call of CreateUser
RegisterUserCheck(c, args) ==
    /\ clients[c].signup = <<>>
    /\ call' = [op |-> "SIGNUP", conn |-> c, args |-> args, step |-> "check"]
    /\ IF Len(args) # 2
       THEN /\ writeResponse(c, "ERROR Usage: SIGNUP <username> <password>")
            /\ UNCHANGED clients
       ELSE IF RegisterUser(args[1], args[2]) # Nil
       THEN /\ writeResponse(c, "ERROR " \o RegisterUser(args[1], args[2]))
            /\ UNCHANGED clients
       ELSE /\ clients' = [clients EXCEPT ![c].signup = args]
            /\ UNCHANGED response
    /\ UNCHANGED <<users, userStats, sessions, issued, now>>

\* a bug: the username column is not UNIQUE
RegisterUserCreateNotUnique(c) ==
    /\ clients[c].signup # <<>>
    /\ LET args == clients[c].signup
           user == CreateUser(args[1], HashPassword(args[2]))
       IN /\ call' = [op |-> "SIGNUP", conn |-> c, args |-> args, step |-> "create"]
          /\ users' = Append(users, user)
          /\ userStats' = Append(userStats, initUserStats(user.ID))
          /\ writeResponse(c, "OK Account created for " \o user.Username
                              \o " with balance $" \o formatMoney(user.Balance))
    /\ clients' = [clients EXCEPT ![c].signup = <<>>]
    /\ UNCHANGED <<sessions, issued, now>>

\* RegisterUser from the call of CreateUser on, and the response of
\* handleSignup; the last part of the error is the database's message
RegisterUserCreate(c) ==
    /\ clients[c].signup # <<>>
    /\ LET args == clients[c].signup
           user == CreateUser(args[1], HashPassword(args[2]))
       IN /\ call' = [op |-> "SIGNUP", conn |-> c, args |-> args, step |-> "create"]
          /\ IF GetUserByUsername(args[1]).err = Nil
             THEN /\ writeResponse(c, "ERROR failed to create user: failed to create user: "
                                      \o "UNIQUE constraint failed: users.username")
                  /\ UNCHANGED <<users, userStats>>
             ELSE /\ users' = Append(users, user)
                  /\ userStats' = Append(userStats, initUserStats(user.ID))
                  /\ writeResponse(c, "OK Account created for " \o user.Username
                                      \o " with balance $" \o formatMoney(user.Balance))
    /\ clients' = [clients EXCEPT ![c].signup = <<>>]
    /\ UNCHANGED <<sessions, issued, now>>

NextSignup ==
    \/ \E c \in Conns, args \in SignupLines : RegisterUserCheck(c, args) /\ noGameStep
    \/ \E c \in Conns : RegisterUserCreate(c) /\ noGameStep

SpecSignup == InitSignup /\ [][NextSignup]_allVars

----------------------------------------------------------------------------
(* The game commands of the router: BET, HIT, STAND, DOUBLEDOWN, SURRENDER.
   A connection owns one Game, the engine's variables here; the stake is
   debited when it is put up and the payout credited when the round reaches
   GAME_OVER.  BET creates a Game over a fresh deck and calls PlaceBet, which
   shuffles it; the fresh deck is the last MaxDeck cards that NewDeck has of
   the cards of the model.  call and err are the last call that reached the
   Game.  response holds the first line of an OK response;
   the lines after it are the text of GetGameState for the Game. *)

\* most rounds a connection plays
MaxRounds == 2

\* the fresh deck: the last MaxDeck cards of the model in NewDeck order
RouterDecks ==
    {d \in InitDecks :
        /\ Len(d) = MaxDeck
        /\ inNewDeckOrder(d)
        /\ \A card \in CardPool :
              (\A i \in 1..Len(d) : d[i] # card) =>
                 deckPosition(card) < deckPosition(d[1])}

\* the fresh deck as PlaceBet's Shuffle can leave it
ShuffledDecks == UNION {Shuffle(d) : d \in RouterDecks}

\* the connection has a session that validates
authenticated(c) ==
    /\ clients[c].user # NoUser
    /\ ValidateSession(clients[c].sessionID).err = Nil

larger(a, b) == IF a >= b THEN a ELSE b

\* the statistics with one more settled round: won iff PlayerWin or
\* PlayerBlackjack, lost iff DealerWin or Surrender, a push neither; the
\* biggest loss counts the whole bet, for a surrender the forfeited half
settledStats(stats, bet, result, payout) ==
    [stats EXCEPT
        !.GamesPlayed = @ + 1,
        !.GamesWon = IF result \in {ResultPlayerWin, ResultPlayerBlackjack} THEN @ + 1 ELSE @,
        !.GamesLost = IF result \in {ResultDealerWin, ResultSurrender} THEN @ + 1 ELSE @,
        !.TotalBet = @ + bet,
        !.TotalWon = @ + payout,
        !.BiggestWin = IF result \in {ResultPlayerWin, ResultPlayerBlackjack}
                       THEN larger(@, bet) ELSE @,
        !.BiggestLoss = IF result = ResultDealerWin THEN larger(@, bet)
                        ELSE IF result = ResultSurrender THEN larger(@, bet - quot(bet, 2))
                        ELSE @]

\* the store after the command: the account is debited, and when the command
\* took the Game to GAME_OVER the round is settled, CalculatePayout()
\* credited and the statistics updated
settlement(userID, debit) ==
    LET balance == GetUserByID(userID).user.Balance
        payout == CalculatePayout(Bet', Result')
    IN IF Phase' = PhaseGameOver
       THEN /\ users' = UpdateUserBalance(userID, balance - debit + payout)
            /\ userStats' = UpdateUserStats(
                   settledStats(GetUserStats(userID).stats, Bet', Result', payout))
       ELSE /\ users' = UpdateUserBalance(userID, balance - debit)
            /\ UNCHANGED userStats

\* the rounds of the ledger, with the round the command settled
settledRounds ==
    IF Phase' = PhaseGameOver
    THEN Append(ledger.rounds, [result |-> Result', stake |-> Bet',
                                payout |-> CalculatePayout(Bet', Result')])
    ELSE ledger.rounds

\* NewGame() over the deck as PlaceBet's shuffle left it, then the deal of
\* PlaceBet(amount)
startGame(amount, deck) ==
    LET d == dealInitial(deck, <<>>, <<>>)
        r == resolveOpening(d.player, d.dealer)
    IN /\ Bet' = amount
       /\ Deck' = d.deck
       /\ PlayerHand' = d.player
       /\ DealerHand' = d.dealer
       /\ err' = d.err
       /\ Phase' = IF d.err # Nil THEN PhaseWaitingForBet ELSE r.Phase
       /\ Result' = IF d.err # Nil \/ r.Phase # PhaseGameOver THEN ResultNone ELSE r.Result
       /\ IsDoubled' = FALSE
       /\ PlayerStood' = FALSE
       /\ deckExhausted' = FALSE

\* the command did not reach the Game
refused(c, message) ==
    /\ writeResponse(c, message)
    /\ UNCHANGED <<gameVars, call, err, deckExhausted, users, userStats, ledger>>

\* BET amount
handleBet(c, amount) ==
    /\ clients[c].open
    /\ IF ~authenticated(c)
       THEN refused(c, "ERROR Please login first")
       ELSE IF Phase = PhasePlayerTurn
       THEN refused(c, "ERROR Game already in progress")
       ELSE IF amount <= 0
       THEN refused(c, "ERROR Invalid bet amount")
       ELSE IF amount > GetUserByID(clients[c].user.ID).user.Balance
       THEN refused(c, "ERROR Insufficient funds")
       ELSE /\ Len(ledger.rounds) < MaxRounds
            /\ call' = [op |-> "BET", conn |-> c, amount |-> amount]
            /\ \E shuffled \in ShuffledDecks : startGame(amount, shuffled)
            /\ IF err' # Nil
               THEN /\ writeResponse(c, "ERROR " \o err')
                    /\ UNCHANGED <<users, userStats, ledger>>
               ELSE /\ writeResponse(c, "OK Game started!")
                    /\ settlement(clients[c].user.ID, amount)
                    /\ ledger' = [before |-> GetUserByID(clients[c].user.ID).user.Balance,
                                  amount |-> amount,
                                  rounds |-> settledRounds]
    /\ UNCHANGED <<sessions, issued, now, clients>>

\* HIT, STAND, DOUBLEDOWN or SURRENDER: the Game method is called, debit is
\* the stake the command adds
playerMove(c, move, okLine, debit) ==
    /\ clients[c].open
    /\ IF ~authenticated(c)
       THEN refused(c, "ERROR Please login first")
       ELSE IF Phase # PhasePlayerTurn
       THEN refused(c, "ERROR No active game")
       ELSE /\ move
            /\ IF err' # Nil
               THEN /\ writeResponse(c, "ERROR " \o err')
                    /\ UNCHANGED <<users, userStats, ledger>>
               ELSE /\ writeResponse(c, okLine)
                    /\ settlement(clients[c].user.ID, debit)
                    /\ ledger' = [ledger EXCEPT !.rounds = settledRounds]
    /\ UNCHANGED <<sessions, issued, now, clients>>

\* al has signed up and logged in on the first connection, the other
\* connection is not open
InitRouter ==
    /\ noGame
    /\ now = 0
    /\ users = <<[ID |-> 1, Username |-> "al", Password |-> HashPassword("pw"),
                  Balance |-> DefaultBalance]>>
    /\ userStats = <<initUserStats(Len(users))>>
    /\ issued = 1
    /\ sessions = {[ID |-> GenerateSessionID(0), UserID |-> Len(users),
                    ExpiresAt |-> GetSessionExpiry]}
    /\ clients = [c \in Conns |->
                    IF \A other \in Conns : c <= other
                    THEN [open |-> TRUE, sessionID |-> GenerateSessionID(0),
                          user |-> users[Len(users)]]
                    ELSE closedClient]
    /\ response = <<>>
    /\ ledger = noLedger

NextRouter ==
    \/ \E c \in Conns, amount \in Amounts : handleBet(c, amount)
    \/ \E c \in Conns : playerMove(c, Hit, "OK", 0)
    \/ \E c \in Conns : playerMove(c, Stand, "OK", 0)
    \/ \E c \in Conns : playerMove(c, DoubleDown, "OK Doubled down!", Bet)
    \/ \E c \in Conns : playerMove(c, Surrender, "OK Surrendered!", 0)

SpecRouter == InitRouter /\ [][NextRouter]_allVars

----------------------------------------------------------------------------
(* Properties of the engine *)

phaseRank(p) ==
    CASE p = PhaseWaitingForBet -> 0
      [] p = PhasePlayerTurn -> 1
      [] p = PhaseDealerTurn -> 2
      [] p = PhaseGameOver -> 3

BetOps == {"PlaceBet", "PlaceBetNoShuffle"}

TurnOps == {"Hit", "Stand", "DoubleDown"}

\* a and b hold the same cards the same number of times
SameCards(a, b) ==
    /\ Len(a) = Len(b)
    /\ \A i \in 1..Len(a) :
          Cardinality({j \in 1..Len(a) : a[j] = a[i]}) = Cardinality({j \in 1..Len(b) : b[j] = a[i]})

\* C1: over any sequence of calls the phase never moves back in the order
\* WAITING_FOR_BET, PLAYER_TURN, DEALER_TURN, GAME_OVER, and once the phase is
\* GAME_OVER no call changes the phase, the result, the bet, a hand or the deck.
C1_PhaseOnlyAdvances ==
    [][/\ phaseRank(Phase) <= phaseRank(Phase')
       /\ Phase = PhaseGameOver =>
             UNCHANGED <<Phase, Result, Bet, PlayerHand, DealerHand, Deck>>]_vars

\* a finished game with cards left in the deck on which Hit was tried
C1_Witness ==
    /\ Phase = PhaseGameOver
    /\ call.op = "Hit"
    /\ Len(Deck) > 0

\* C2: a call turned away on a precondition returns an error and changes
\* nothing: Hit, Stand, DoubleDown outside PLAYER_TURN, PlaceBet outside
\* WAITING_FOR_BET, and PlaceBet with an amount <= 0.
C2_RejectedCallChangesNothing ==
    [][/\ (call'.op \in TurnOps /\ Phase # PhasePlayerTurn)
             => (err' # Nil /\ UNCHANGED gameVars)
       /\ (call'.op \in BetOps /\ Phase # PhaseWaitingForBet)
             => (err' = ErrBetPhase /\ UNCHANGED gameVars)
       /\ (call'.op \in BetOps /\ Phase = PhaseWaitingForBet /\ call'.amount <= 0)
             => (err' = ErrBetPositive /\ UNCHANGED gameVars)]_vars

\* PlaceBet with amount 0 was turned away on a game still waiting for its bet
C2_Witness ==
    /\ call.op \in BetOps
    /\ call.amount = 0
    /\ err = ErrBetPositive
    /\ Phase = PhaseWaitingForBet
    /\ Len(Deck) >= 4

\* C3: after every successful placeBet the opening blackjacks are resolved:
\* both blackjack gives GAME_OVER and Push, the player alone GAME_OVER and
\* PlayerBlackjack, the dealer alone GAME_OVER and DealerWin, neither leaves
\* PLAYER_TURN with no result.
C3_OpeningBlackjacks ==
    (call.op \in BetOps /\ err = Nil) =>
        LET pBJ == Len(PlayerHand) = 2 /\ Value(PlayerHand) = 21
            dBJ == Len(DealerHand) = 2 /\ Value(DealerHand) = 21
        IN /\ (pBJ /\ dBJ) => (Phase = PhaseGameOver /\ Result = ResultPush)
           /\ (pBJ /\ ~dBJ) => (Phase = PhaseGameOver /\ Result = ResultPlayerBlackjack)
           /\ (~pBJ /\ dBJ) => (Phase = PhaseGameOver /\ Result = ResultDealerWin)
           /\ (~pBJ /\ ~dBJ) => (Phase = PhasePlayerTurn /\ Result = ResultNone)

\* a deal that gave both sides a blackjack
C3_Witness ==
    /\ call.op \in BetOps
    /\ err = Nil
    /\ IsBlackjack(PlayerHand)
    /\ IsBlackjack(DealerHand)

\* C4: a successful placeBet takes four cards from the front of the deck it
\* deals from, in the order player, dealer, player, dealer, leaves the rest as
\* the deck, and sets Bet to the amount given.  PlaceBetNoShuffle deals from
\* the deck as it stands, PlaceBet from some reordering of it.
C4_DealOrder ==
    [][(call'.op \in BetOps /\ err' = Nil) =>
          /\ Bet' = call'.amount
          /\ Len(PlayerHand') = 2
          /\ Len(DealerHand') = 2
          /\ LET dealt == <<PlayerHand'[1], DealerHand'[1], PlayerHand'[2], DealerHand'[2]>> \o Deck'
             IN IF call'.op = "PlaceBetNoShuffle" THEN dealt = Deck ELSE SameCards(dealt, Deck)]_vars

\* a deal without shuffle that left cards in the deck
C4_Witness ==
    /\ call.op = "PlaceBetNoShuffle"
    /\ err = Nil
    /\ Len(PlayerHand) = 2
    /\ Len(Deck) > 0

\* C5: a Hit in PLAYER_TURN on a non-empty deck moves the front card of the
\* deck to the end of the player hand and leaves the dealer hand and the bet
\* alone; a hand over 21 ends the round as GAME_OVER with DealerWin, otherwise
\* the phase stays PLAYER_TURN with no result.
C5_Hit ==
    [][(call'.op = "Hit" /\ Phase = PhasePlayerTurn /\ Len(Deck) > 0) =>
          /\ err' = Nil
          /\ PlayerHand' = Append(PlayerHand, Deck[1])
          /\ Deck' = Tail(Deck)
          /\ DealerHand' = DealerHand
          /\ Bet' = Bet
          /\ IF Value(PlayerHand') > 21
             THEN Phase' = PhaseGameOver /\ Result' = ResultDealerWin
             ELSE Phase' = PhasePlayerTurn /\ Result' = ResultNone]_vars

\* a Hit that busted the player while the dealer was still below 17
C5_Witness ==
    /\ call.op = "Hit"
    /\ err = Nil
    /\ Value(PlayerHand) > 21
    /\ Len(DealerHand) = 2
    /\ Value(DealerHand) < 17

\* C6: Stand in PLAYER_TURN never fails, whatever the deck holds: it sets the
\* player-stood flag, leaves the player hand and the bet alone, and returns in
\* GAME_OVER with a result set.
C6_Stand ==
    [][(call'.op = "Stand" /\ Phase = PhasePlayerTurn) =>
          /\ err' = Nil
          /\ PlayerStood' = TRUE
          /\ PlayerHand' = PlayerHand
          /\ Bet' = Bet
          /\ Phase' = PhaseGameOver
          /\ Result' # ResultNone]_vars

\* a Stand on an empty deck with the dealer below 17
C6_Witness ==
    /\ call.op = "Stand"
    /\ err = Nil
    /\ PlayerStood
    /\ Deck = <<>>
    /\ Value(DealerHand) < 17

\* a step in which the dealer's auto-play ran: a Stand, or a DoubleDown that
\* drew its card without busting
AutoPlayStep ==
    /\ Phase = PhasePlayerTurn
    /\ \/ call'.op = "Stand"
       \/ /\ call'.op = "DoubleDown"
          /\ Len(PlayerHand') = Len(PlayerHand) + 1
          /\ Value(PlayerHand') <= 21

\* C7: the dealer stands on every 17: in auto-play each card the dealer draws
\* is drawn on a hand below 17, a dealer at 17 or more draws nothing (soft 17
\* and an empty deck included), and unless the deck ran out the dealer ends
\* at 17 or more.
C7_DealerPolicy ==
    [][AutoPlayStep =>
          /\ \A k \in Len(DealerHand)..(Len(DealerHand') - 1) :
                Value(SubSeq(DealerHand', 1, k)) < 17
          /\ SubSeq(DealerHand', 1, Len(DealerHand)) = DealerHand
          /\ Value(DealerHand) >= 17 => (DealerHand' = DealerHand /\ ~deckExhausted')
          /\ ~deckExhausted' => Value(DealerHand') >= 17]_vars

\* the dealer stood on a soft 17 with cards left to draw
C7_Witness ==
    /\ call.op = "Stand"
    /\ err = Nil
    /\ Len(DealerHand) = 2
    /\ Value(DealerHand) = 17
    /\ CountAces(DealerHand) = 1
    /\ Len(Deck) > 0

\* C8: when auto-play ends with the dealer still below 17, the deck has run
\* out, and the round is GAME_OVER with Push whatever the two hands are
\* worth, with no error.
C8_ExhaustionIsPush ==
    [][(AutoPlayStep /\ Value(DealerHand') < 17) =>
          /\ Deck' = <<>>
          /\ deckExhausted'
          /\ err' = Nil
          /\ Phase' = PhaseGameOver
          /\ Result' = ResultPush]_vars

\* the deck ran out on a dealer whose hand was worth less than the player's
C8_Witness ==
    /\ deckExhausted
    /\ Result = ResultPush
    /\ Len(DealerHand) > 2
    /\ Value(DealerHand) < Value(PlayerHand)

\* C9: when auto-play ends without the deck running out, the result is
\* DealerWin for a busted player, else PlayerWin for a busted dealer, else the
\* higher hand wins, and equal values are a Push.
C9_WinnerOrder ==
    (call.op \in {"Stand", "DoubleDown"} /\ err = Nil /\ ~deckExhausted) =>
        LET pv == Value(PlayerHand)
            dv == Value(DealerHand)
        IN /\ Phase = PhaseGameOver
           /\ Result = IF pv > 21 THEN ResultDealerWin
                       ELSE IF dv > 21 THEN ResultPlayerWin
                       ELSE IF pv > dv THEN ResultPlayerWin
                       ELSE IF dv > pv THEN ResultDealerWin
                       ELSE ResultPush

\* both hands ended on the same value and the round was a Push
C9_Witness ==
    /\ call.op = "Stand"
    /\ err = Nil
    /\ ~deckExhausted
    /\ Value(PlayerHand) = Value(DealerHand)
    /\ Result = ResultPush

\* C10: a successful DoubleDown is made in PLAYER_TURN on a two-card hand; it
\* doubles Bet, sets the doubled flag, draws one card into the player hand
\* and ends in GAME_OVER: with DealerWin and the dealer hand untouched when
\* the player busts, otherwise with what the dealer's auto-play settles.
C10_DoubleDown ==
    [][(call'.op = "DoubleDown" /\ err' = Nil) =>
          /\ Phase = PhasePlayerTurn
          /\ Len(PlayerHand) = 2
          /\ Bet' = 2 * Bet
          /\ IsDoubled' = TRUE
          /\ PlayerHand' = Append(PlayerHand, Head(Deck))
          /\ DealerHand' \o Deck' = DealerHand \o Tail(Deck)
          /\ Phase' = PhaseGameOver
          /\ LET pv == Value(PlayerHand')
                 dv == Value(DealerHand')
             IN IF pv > 21
                THEN Result' = ResultDealerWin /\ DealerHand' = DealerHand
                ELSE /\ dv >= 17 \/ Deck' = <<>>
                     /\ Result' = IF dv < 17 THEN ResultPush
                                  ELSE IF dv > 21 THEN ResultPlayerWin
                                  ELSE IF pv > dv THEN ResultPlayerWin
                                  ELSE IF dv > pv THEN ResultDealerWin
                                  ELSE ResultPush]_vars

\* a DoubleDown that did not bust and was won against the dealer's auto-play
C10_Witness ==
    /\ call.op = "DoubleDown"
    /\ err = Nil
    /\ IsDoubled
    /\ Len(PlayerHand) = 3
    /\ Value(PlayerHand) <= 21
    /\ Result = ResultPlayerWin

\* C11: DoubleDown is rejected whenever the player hand does not have exactly
\* two cards, so after any Hit of the round; the rejected call leaves the
\* bet, the doubled flag, both hands, the deck and the phase as they were.
C11_DoubleDownNeedsInitialHand ==
    [][(call'.op = "DoubleDown" /\ Len(PlayerHand) # 2) =>
          /\ err' # Nil
          /\ Phase = PhasePlayerTurn => err' = ErrDoubleInitial
          /\ UNCHANGED gameVars]_vars

\* a DoubleDown rejected on a three-card hand with cards left to draw
C11_Witness ==
    /\ call.op = "DoubleDown"
    /\ err = ErrDoubleInitial
    /\ Phase = PhasePlayerTurn
    /\ Len(PlayerHand) = 3
    /\ ~IsDoubled

\* C12: CalculatePayout depends on Bet and Result alone: PlayerBlackjack pays
\* bet + (bet*3)/2 with the quotient truncated, PlayerWin pays 2*bet, Push
\* pays bet, DealerWin pays 0; the call changes nothing in the game.
C12_CalculatePayout ==
    [][call'.op = "CalculatePayout" =>
          /\ UNCHANGED gameVars
          /\ Result = ResultPlayerBlackjack =>
                \E q \in 0..(3 * Bet) :
                    /\ 2 * q <= 3 * Bet
                    /\ 3 * Bet < 2 * (q + 1)
                    /\ call'.ret = Bet + q
          /\ Result = ResultPlayerWin => call'.ret = 2 * Bet
          /\ Result = ResultPush => call'.ret = Bet
          /\ Result = ResultDealerWin => call'.ret = 0]_vars

\* the payout of a blackjack on an odd bet, where the quotient is truncated
C12_Witness ==
    /\ call.op = "CalculatePayout"
    /\ Result = ResultPlayerBlackjack
    /\ Bet % 2 = 1
    /\ 2 * call.ret = 5 * Bet - 1

\* C13: after a successful DoubleDown the payout of the round is taken on the
\* doubled stake: a push returns twice the bet placed, a win four times it,
\* a loss nothing.
C13_PayoutOnDoubledStake ==
    [][(call'.op = "DoubleDown" /\ err' = Nil) =>
          /\ ~IsDoubled
          /\ Result' \in {ResultPush, ResultPlayerWin, ResultDealerWin}
          /\ Result' = ResultPush => CalculatePayout(Bet', Result') = 2 * Bet
          /\ Result' = ResultPlayerWin => CalculatePayout(Bet', Result') = 4 * Bet
          /\ Result' = ResultDealerWin => CalculatePayout(Bet', Result') = 0]_vars

\* a DoubleDown that ended in a push on equal hand values
C13_Witness ==
    /\ call.op = "DoubleDown"
    /\ err = Nil
    /\ Result = ResultPush
    /\ ~deckExhausted
    /\ Value(PlayerHand) = Value(DealerHand)
    /\ CalculatePayout(Bet, Result) = Bet

\* C14: Surrender in PLAYER_TURN on a two-card player hand ends the round at
\* once with result Surrender and draws no card: both hands and the deck are
\* as before.  In any other phase, and on a hand of any other size, Surrender
\* is rejected and changes nothing.
C14_Surrender ==
    [][call'.op = "Surrender" =>
          IF Phase = PhasePlayerTurn /\ Len(PlayerHand) = 2
          THEN /\ err' = Nil
               /\ Phase' = PhaseGameOver
               /\ Result' = ResultSurrender
               /\ UNCHANGED <<Deck, PlayerHand, DealerHand>>
          ELSE /\ err' # Nil
               /\ UNCHANGED gameVars]_vars

\* a surrendered round whose dealer stood below 17 with cards left to draw
C14_Witness ==
    /\ call.op = "Surrender"
    /\ err = Nil
    /\ Phase = PhaseGameOver
    /\ Result = ResultSurrender
    /\ Len(PlayerHand) = 2
    /\ Value(DealerHand) < 17
    /\ Len(Deck) > 0

\* C15: the payout for result Surrender is half the bet, the division
\* truncated: an odd bet loses the remainder.
C15_SurrenderPayout ==
    Result = ResultSurrender => CalculatePayout(Bet, Result) = quot(Bet, 2)

\* C16: GetValidActions returns nothing outside PLAYER_TURN; in PLAYER_TURN it
\* returns HIT and STAND, DOUBLEDOWN as well iff the player holds two cards and
\* has not doubled, and SURRENDER as well iff the player holds two cards.
C16_GetValidActions ==
    call.op = "GetValidActions" =>
        {call.ret[i] : i \in 1..Len(call.ret)} =
            IF Phase # PhasePlayerTurn
            THEN {}
            ELSE {"HIT", "STAND"}
                 \cup (IF Len(PlayerHand) = 2 /\ ~IsDoubled THEN {"DOUBLEDOWN"} ELSE {})
                 \cup (IF Len(PlayerHand) = 2 THEN {"SURRENDER"} ELSE {})

\* C17: a hand is a blackjack iff it holds exactly two cards worth 21, and a
\* 21 of more cards never pays 3:2: a round whose result is PlayerBlackjack
\* was settled by the deal on a two-card hand, and every win reached after a
\* Hit, Stand or DoubleDown is a PlayerWin that pays twice the bet.
C17_BlackjackIsTwoCards ==
    /\ \A h \in {PlayerHand, DealerHand} : IsBlackjack(h) <=> (Len(h) = 2 /\ Value(h) = 21)
    /\ Result = ResultPlayerBlackjack =>
          /\ Len(PlayerHand) = 2
          /\ Value(PlayerHand) = 21
    /\ (Result \in {ResultPlayerWin, ResultPlayerBlackjack}
        /\ (Len(PlayerHand) > 2 \/ (call.op \in TurnOps /\ err = Nil))) =>
          /\ Result = ResultPlayerWin
          /\ CalculatePayout(Bet, Result) = 2 * Bet

\* a round won on a 21 of three cards
C17_Witness ==
    /\ Result = ResultPlayerWin
    /\ Len(PlayerHand) = 3
    /\ Value(PlayerHand) = 21
    /\ call.op \in TurnOps
    /\ err = Nil

\* the cards of h that are Aces, by position
acePositions(h) == {i \in 1..Len(h) : h[i].Rank = "A"}

\* the total of h with the Aces at the positions in high counted as 11 and
\* every other Ace as 1
RECURSIVE totalWith(_, _, _)
totalWith(h, high, i) ==
    IF i > Len(h) THEN 0
    ELSE (IF h[i].Rank # "A" THEN h[i].Value ELSE IF i \in high THEN 11 ELSE 1)
         + totalWith(h, high, i + 1)

\* every total of h over the ways of counting its Aces
totals(h) == {totalWith(h, high, 1) : high \in SUBSET acePositions(h)}

\* the greatest total not above 21, or the total with every Ace as 1
bestTotal(h) ==
    LET within == {t \in totals(h) : t <= 21}
    IN IF within # {}
       THEN CHOOSE t \in within : \A u \in within : u <= t
       ELSE totalWith(h, {}, 1)

\* C18: Value() is the greatest total not above 21 that counting each Ace as
\* 11 or as 1 can give, and the total with every Ace as 1 when there is none;
\* a hand of k Aces alone is worth 10 + k, the empty hand 0.
C18_ValueIsBestTotal ==
    call.op = "Value" =>
        /\ call.ret = bestTotal(PlayerHand)
        /\ PlayerHand = <<>> => call.ret = 0
        /\ (PlayerHand # <<>> /\ acePositions(PlayerHand) = 1..Len(PlayerHand)) =>
              call.ret = 10 + Len(PlayerHand)

\* the value read of a hand that counts two Aces down and still holds one at 11
C18_Witness ==
    /\ call.op = "Value"
    /\ Cardinality(acePositions(PlayerHand)) = 3
    /\ Len(PlayerHand) = 3
    /\ call.ret = 13

\* C19: a bet of a positive amount placed on a deck of fewer than four cards
\* fails with the deal-failure error and the phase stays WAITING_FOR_BET,
\* neither PLAYER_TURN nor GAME_OVER; on the game it leaves, partially dealt
\* or not, every Hit, Stand and DoubleDown is rejected and changes nothing.
C19_ShortDeckDealFails ==
    [][/\ (call'.op \in BetOps /\ Phase = PhaseWaitingForBet
           /\ call'.amount > 0 /\ Len(Deck) < 4) =>
             /\ err' = ErrDealFailed
             /\ Phase' = PhaseWaitingForBet
             /\ Bet' = call'.amount
       /\ (call'.op \in TurnOps /\ Phase = PhaseWaitingForBet) =>
             /\ err' # Nil
             /\ UNCHANGED gameVars]_vars

\* a Hit, Stand or DoubleDown turned away on a game whose deal stopped after
\* three cards
C19_Witness ==
    /\ call.op \in TurnOps
    /\ err # Nil
    /\ Phase = PhaseWaitingForBet
    /\ Bet > 0
    /\ Len(PlayerHand) = 2
    /\ Len(DealerHand) = 1
    /\ Deck = <<>>

\* C20: a Hit in PLAYER_TURN that finds the deck empty returns the deck's
\* error and leaves both hands, the bet and the phase as they were; a Stand
\* called next is accepted and settles the round.
C20_FailedHitChangesNothing ==
    [][/\ (call'.op = "Hit" /\ Phase = PhasePlayerTurn /\ Deck = <<>>) =>
             /\ err' = ErrDeckEmpty
             /\ Phase' = PhasePlayerTurn
             /\ UNCHANGED <<PlayerHand, DealerHand, Bet, Deck, Result>>
       /\ (call.op = "Hit" /\ err = ErrDeckEmpty /\ call'.op = "Stand") =>
             /\ err' = Nil
             /\ Phase' = PhaseGameOver
             /\ Result' # ResultNone
             /\ PlayerHand' = PlayerHand]_vars

\* the player's turn right after a Hit failed on the empty deck
C20_Witness ==
    /\ call.op = "Hit"
    /\ err = ErrDeckEmpty
    /\ Phase = PhasePlayerTurn
    /\ Len(PlayerHand) >= 2
    /\ Deck = <<>>

\* C21: a DoubleDown that fails because the deck is empty returns an error and
\* leaves the bet, the doubled flag, both hands and the phase as they were
\* before the call.
C21_FailedDoubleDownChangesNothing ==
    [][(call'.op = "DoubleDown" /\ err' = ErrDeckEmpty) =>
          UNCHANGED <<Bet, IsDoubled, PlayerHand, DealerHand, Phase>>]_vars

\* the dealer's line of the state text when nothing is hidden
fullDealerLine(g) ==
    "Dealer Hand: " \o HandString(g.DealerHand)
    \o " (Value: " \o formatInt(Value(g.DealerHand)) \o ")\n"

\* text ends with the given ending
endsWith(text, ending) ==
    /\ Len(text) >= Len(ending)
    /\ SubSeq(text, Len(text) - Len(ending) + 1, Len(text)) = ending

\* part occurs somewhere in text
contains(text, part) ==
    \E i \in 1..(Len(text) - Len(part) + 1) : SubSeq(text, i, i + Len(part) - 1) = part

\* C22: in PLAYER_TURN the state text asked for with the hide flag does not
\* depend on the dealer's second card: a game that differs in that card alone
\* gives the same text, which shows the dealer's first card and a hidden
\* placeholder and no dealer value.  In every other phase, and without the
\* flag, the text shows the whole dealer hand and its value.
C22_HoleCardHidden ==
    call.op = "GetGameState" =>
        IF call.hideDealer /\ Phase = PhasePlayerTurn
        THEN /\ \A c \in CardPool :
                  GetGameState([thisGame EXCEPT !.DealerHand[2] = c], TRUE) = call.ret
             /\ endsWith(call.ret, "Dealer Hand: [" \o DealerHand[1].Rank
                                   \o DealerHand[1].Suit \o "] [Hidden]\n")
        ELSE DealerHand # <<>> =>
                contains(call.ret, fullDealerLine(thisGame))

\* the hidden text of a player's turn in which the dealer holds an Ace behind
\* a 7
C22_Witness ==
    /\ call.op = "GetGameState"
    /\ call.hideDealer
    /\ Phase = PhasePlayerTurn
    /\ Len(DealerHand) = 2
    /\ DealerHand[1].Rank = "7"
    /\ DealerHand[2].Rank = "A"

startsWith(text, beginning) ==
    /\ Len(text) >= Len(beginning)
    /\ SubSeq(text, 1, Len(beginning)) = beginning

\* C25: a command handleCommand has no case for is answered on its own
\* connection with an ERROR response that names the command, and neither the
\* connection's state nor any session or account changes, so the next line is
\* handled as before.
C25_UnknownCommand ==
    [][call'.op \in OtherCommands =>
          /\ response'.conn = call'.conn
          /\ startsWith(response'.text, "ERROR")
          /\ contains(response'.text, call'.op)
          /\ UNCHANGED <<clients, sessions, users, userStats>>]_allVars

\* the commands of C26
AccountCommands == {"BALANCE", "STATS", "WHOAMI", "LOGOUT"}

\* C26: BALANCE, STATS, WHOAMI or LOGOUT on a connection whose session does
\* not validate (never logged in, logged out, expired or swept) is answered
\* with an ERROR response and changes no account data.
C26_NotAuthenticated ==
    [][(/\ call'.op \in AccountCommands
        /\ ValidateSession(clients[call'.conn].sessionID).err # Nil) =>
          /\ response'.conn = call'.conn
          /\ startsWith(response'.text, "ERROR")
          /\ UNCHANGED <<users, userStats>>]_allVars

\* no account has the name
unknownUser(username) ==
    \A i \in 1..Len(users) : users[i].Username # username

\* an account has the name, and the password is not the one it signed up with
wrongPassword(username, password) ==
    \E i \in 1..Len(users) :
        /\ users[i].Username = username
        /\ users[i].Password # HashPassword(password)

\* C27: a LOGIN for a name no account has and a LOGIN with the wrong password
\* of an account get the very same response, and neither creates a session
\* or logs the connection in.
C27_FailedLoginTellsNothing ==
    [][(/\ call'.op = "LOGIN"
        /\ Len(call'.args) = 2
        /\ \/ unknownUser(call'.args[1])
           \/ wrongPassword(call'.args[1], call'.args[2])) =>
          /\ response' = [conn |-> call'.conn,
                          text |-> "ERROR invalid username or password"]
          /\ UNCHANGED <<sessions, issued, clients>>]_allVars

\* a LOGIN with the wrong password of an existing account was refused
C27_Witness ==
    /\ call.op = "LOGIN"
    /\ Len(call.args) = 2
    /\ wrongPassword(call.args[1], call.args[2])
    /\ response = [conn |-> call.conn, text |-> "ERROR invalid username or password"]
    /\ sessions # {}

\* every session id that can be generated
sessionIDs == {GenerateSessionID(n) : n \in 0..MaxSessions}

\* the session ids generated so far
issuedSessionIDs == {GenerateSessionID(n) : n \in 0..(issued - 1)}

\* the command just handled is a LOGOUT of the session
loggedOut(sessionID) ==
    /\ call'.op = "LOGOUT"
    /\ clients[call'.conn].sessionID = sessionID

\* C28: the session a successful LOGIN creates validates to the account that
\* logged in; a session that validates goes on validating to the same
\* account over every step that is not its logout and does not reach its
\* expiry; a logged-out session, and any issued session that no longer
\* validates, never validates again; a LOGOUT removes no other session.
C28_SessionLifecycle ==
    [][/\ (call'.op = "LOGIN" /\ startsWith(response'.text, "OK")) =>
             /\ clients'[call'.conn].sessionID \notin issuedSessionIDs
             /\ \A id \in sessionIDs :
                   id = clients'[call'.conn].sessionID =>
                      /\ ValidateSession(id)'.err = Nil
                      /\ ValidateSession(id)'.user.Username = call'.args[1]
       /\ \A r \in sessions :
             (/\ ValidateSession(r.ID).err = Nil
              /\ ~loggedOut(r.ID)
              /\ r.ExpiresAt > now') =>
                ValidateSession(r.ID)' = ValidateSession(r.ID)
       /\ \A id \in issuedSessionIDs :
             (ValidateSession(id).err # Nil \/ loggedOut(id)) =>
                ValidateSession(id)'.err # Nil
       /\ call'.op = "LOGOUT" =>
             \A r \in sessions :
                r.ID # clients[call'.conn].sessionID => r \in sessions']_allVars

\* a connection has logged out while the session of another still validates
C28_Witness ==
    /\ call.op = "LOGOUT"
    /\ response.text = "OK Logged out successfully"
    /\ issued = 2
    /\ \E c \in Conns :
          /\ c # call.conn
          /\ ValidateSession(clients[c].sessionID).err = Nil
    /\ \E id \in issuedSessionIDs : ValidateSession(id).err # Nil

\* C29: the account a successful SIGNUP creates has a balance of 1000000 and
\* every statistic at zero.
C29_NewAccount ==
    [][(call'.op = "SIGNUP" /\ startsWith(response'.text, "OK")) =>
          /\ Len(users') = Len(users) + 1
          /\ users'[Len(users')].Username = call'.args[1]
          /\ users'[Len(users')].Balance = 1000000
          /\ userStats'[Len(users')] =
                [UserID |-> Len(users'), GamesPlayed |-> 0, GamesWon |-> 0,
                 GamesLost |-> 0, TotalBet |-> 0, TotalWon |-> 0,
                 BiggestWin |-> 0, BiggestLoss |-> 0]]_allVars

\* the place of a rank in the order of ranks, the place of a suit in suits
rankPlace(rank) == CHOOSE k \in 1..Len(ranks) : ranks[k] = rank

suitPlace(suit) == CHOOSE k \in 1..Len(suits) : suits[k] = suit

\* the point value of the rank at place k of A, 2, ..., 10, J, Q, K
pointValue(k) == IF k = 1 THEN 11 ELSE IF k > 10 THEN 10 ELSE k

\* C30: the deck of a new Game has exactly 52 cards, every pair of one of the
\* 13 ranks and one of the 4 suits exactly once, each with the point value of
\* its rank (2-10 face value, J/Q/K 10, A 11), in suit-major, rank-minor
\* order: 13 cards of one suit in rank order, then the next suit.
C30_NewDeck ==
    call.op = "NewGame" =>
       /\ Len(Deck) = 52
       /\ {<<Deck[i].Rank, Deck[i].Suit>> : i \in 1..Len(Deck)}
             = {<<ranks[r], suits[s]>> : r \in 1..13, s \in 1..4}
       /\ \A i, j \in 1..Len(Deck) :
             (Deck[i].Rank = Deck[j].Rank /\ Deck[i].Suit = Deck[j].Suit) => i = j
       /\ \A i \in 1..Len(Deck) : Deck[i].Value = pointValue(rankPlace(Deck[i].Rank))
       /\ \A i \in 1..(Len(Deck) - 1) :
             IF i % 13 = 0
             THEN /\ suitPlace(Deck[i + 1].Suit) = suitPlace(Deck[i].Suit) + 1
                  /\ rankPlace(Deck[i + 1].Rank) = 1
             ELSE /\ Deck[i + 1].Suit = Deck[i].Suit
                  /\ rankPlace(Deck[i + 1].Rank) = rankPlace(Deck[i].Rank) + 1

\* a Game was replaced by a new one after cards had been drawn from its deck
C30_Witness ==
    /\ call.op = "NewGame"
    /\ Len(Deck) = 52
    /\ Deck[1] = [Rank |-> "A", Suit |-> "S", Value |-> 11]
    /\ Deck[52] = [Rank |-> "K", Suit |-> "C", Value |-> 10]

RECURSIVE sumOf(_, _)
\* the sum of a field over the rounds
sumOf(rounds, field) ==
    IF rounds = <<>> THEN 0 ELSE rounds[1][field] + sumOf(Tail(rounds), field)

\* how many of the rounds ended with one of the results
countOf(rounds, results) ==
    Cardinality({i \in 1..Len(rounds) : rounds[i].result \in results})

\* the balance of the account that plays
playerBalance == users[1].Balance

\* C23: between BET and settlement the balance is the balance before BET less
\* the stake, the amount of the BET or twice it after a double down; when the
\* round is settled the balance is the balance before BET, less the final
\* stake, plus CalculatePayout() of the finished Game, so that a push, after
\* a double down too, gives back the balance held before BET.
C23_EscrowSettlement ==
    [][/\ Phase' = PhasePlayerTurn =>
             /\ Bet' = ledger'.amount
             /\ playerBalance' = ledger'.before - Bet'
       /\ (Phase # PhaseGameOver /\ Phase' = PhaseGameOver) =>
             /\ Bet' = IF IsDoubled' THEN 2 * ledger'.amount ELSE ledger'.amount
             /\ playerBalance' = ledger'.before - Bet' + CalculatePayout(Bet', Result')
             /\ Result' = ResultPush => playerBalance' = ledger'.before
       /\ (Phase = PhaseGameOver /\ Phase' = PhaseGameOver /\ ledger' = ledger) =>
             playerBalance' = playerBalance]_allVars

\* a doubled round ended in a push and the balance is the one before its BET
C23_Witness ==
    /\ Phase = PhaseGameOver
    /\ IsDoubled
    /\ Result = ResultPush
    /\ Bet = 2 * ledger.amount
    /\ Len(ledger.rounds) > 0
    /\ playerBalance = ledger.before

\* C24: with the settled rounds r1..rn of the account, GamesPlayed is n,
\* GamesWon the number of rounds with result PlayerWin or PlayerBlackjack,
\* GamesLost the number with DealerWin or Surrender, a Push in neither so
\* that GamesWon + GamesLost <= GamesPlayed, TotalBet the sum of the stakes
\* and TotalWon the sum of the payouts.
C24_CumulativeStats ==
    LET stats == userStats[1]
        rounds == ledger.rounds
    IN /\ stats.GamesPlayed = Len(rounds)
       /\ stats.GamesWon = countOf(rounds, {ResultPlayerWin, ResultPlayerBlackjack})
       /\ stats.GamesLost = countOf(rounds, {ResultDealerWin, ResultSurrender})
       /\ stats.GamesWon + stats.GamesLost
             = stats.GamesPlayed - countOf(rounds, {ResultPush})
       /\ stats.GamesWon + stats.GamesLost <= stats.GamesPlayed
       /\ stats.TotalBet = sumOf(rounds, "stake")
       /\ stats.TotalWon = sumOf(rounds, "payout")

\* two rounds are settled, a push and a lost one
C24_Witness ==
    /\ Len(ledger.rounds) = 2
    /\ countOf(ledger.rounds, {ResultPush}) = 1
    /\ countOf(ledger.rounds, {ResultDealerWin, ResultSurrender}) = 1
    /\ userStats[1].GamesPlayed = 2
    /\ userStats[1].GamesLost = 1
    /\ userStats[1].GamesWon = 0

\* C31: Draw on a deck that holds cards returns its front card and leaves the
\* cards after it, in their order, one fewer; Draw on an empty deck returns
\* the error and leaves the deck empty; either way nothing else of the Game
\* changes.
C31_Draw ==
    [][call'.op = "Draw" =>
          /\ IF Deck = <<>>
             THEN /\ err' = ErrDeckEmpty
                  /\ call'.card = NoCard
                  /\ Deck' = <<>>
             ELSE /\ err' = Nil
                  /\ call'.card = Deck[1]
                  /\ Len(Deck') = Len(Deck) - 1
                  /\ \A i \in 1..Len(Deck') : Deck'[i] = Deck[i + 1]
          /\ UNCHANGED <<PlayerHand, DealerHand, Phase, Bet, Result, IsDoubled,
                         PlayerStood>>]_vars

\* every card was drawn and one more Draw was refused on the empty deck
C31_Witness ==
    /\ call.op = "Draw"
    /\ call.before = <<>>
    /\ err = ErrDeckEmpty
    /\ Deck = <<>>

RECURSIVE rankAndSuit(_)
\* the cards of a hand, each as rank then suit, with single spaces between
rankAndSuit(h) ==
    IF h = <<>> THEN ""
    ELSE IF Len(h) = 1 THEN h[1].Rank \o h[1].Suit
    ELSE h[1].Rank \o h[1].Suit \o " " \o rankAndSuit(Tail(h))

\* C32: the rendering of a hand is its cards in hand order, each as its rank
\* immediately followed by its suit, separated by single spaces, and nothing
\* else.
C32_HandString ==
    call.op = "String" => call.ret = rankAndSuit(PlayerHand)

\* the dealer's turn was played to its end: the dealer stands on 17 or more,
\* or the deck ran out
dealerDone ==
    /\ Phase' = PhaseGameOver
    /\ Value(DealerHand') >= 17 \/ (deckExhausted' /\ Deck' = <<>>)

\* C33: no call leaves the Game in DEALER_TURN, whether it returns an error
\* or not; a Stand that is accepted, and a DoubleDown that is accepted and
\* does not bust the player, play the dealer's turn to its end within the
\* call.
C33_DealerTurnNeverObserved ==
    [][/\ Phase' # PhaseDealerTurn
       /\ (call'.op = "Stand" /\ err' = Nil) => dealerDone
       /\ (call'.op = "DoubleDown" /\ err' = Nil /\ ~IsBusted(PlayerHand')) =>
             dealerDone]_vars

\* a DoubleDown that did not bust returned with the dealer's turn played, up
\* to the draw that found the deck empty
C33_Witness ==
    /\ call.op = "DoubleDown"
    /\ err = Nil
    /\ ~IsBusted(PlayerHand)
    /\ Value(DealerHand) < 17
    /\ deckExhausted
    /\ Phase = PhaseGameOver

\* C34: Result is set exactly when the phase is GAME_OVER.
C34_ResultIffGameOver ==
    (Result # ResultNone) <=> (Phase = PhaseGameOver)

\* the deck ran out under the dealer and the round was settled all the same
C34_Witness ==
    /\ Phase = PhaseGameOver
    /\ deckExhausted
    /\ Result = ResultPush

\* the cards the dealer has drawn since the loop of playDealerTurn was entered
dealerDraws == Len(DealerHand) - call.dealer

\* C35: the dealer's turn ends: once entered, by Stand or by DoubleDown, it
\* reaches GAME_OVER, and while it runs and after it the dealer has drawn no
\* more cards than the deck held when it was entered, each one taken off the
\* deck.
C35_DealerTurnTerminates ==
    /\ []((call.op \in {"Stand", "DoubleDown"} /\ err = Nil
           /\ Phase \in {PhaseDealerTurn, PhaseGameOver}) =>
             /\ dealerDraws <= call.deck
             /\ Len(Deck) = call.deck - dealerDraws)
    /\ (Phase = PhaseDealerTurn) ~> (Phase = PhaseGameOver)

\* the player stood, the dealer drew the last card of the deck and the round
\* is over
C35_Witness ==
    /\ call.op = "Stand"
    /\ err = Nil
    /\ Phase = PhaseGameOver
    /\ dealerDraws = call.deck
    /\ dealerDraws > 0

\* the phrases getResultMessage can give for a round that is over
resultPhrases ==
    {"Blackjack! You win!", "You win!", "Bust! Dealer wins.", "Dealer wins.",
     "Push - tie game."}

\* C36: the text of GetGameState holds a result phrase and the payout line
\* exactly when the phase is GAME_OVER, and an empty hand is shown as
\* "(no cards dealt)", which is what the text shows for both hands before any
\* deal.
C36_ResultAndPayoutIffGameOver ==
    call.op = "GetGameState" =>
        /\ (\E p \in resultPhrases : contains(call.ret, "Result: " \o p \o "\n"))
              <=> (Phase = PhaseGameOver)
        /\ contains(call.ret, "Payout: $") <=> (Phase = PhaseGameOver)
        /\ contains(call.ret, "Result: ") <=> (Phase = PhaseGameOver)
        /\ contains(call.ret, "Player Hand: (no cards dealt)\n") <=> (PlayerHand = <<>>)
        /\ contains(call.ret, "Dealer Hand: (no cards dealt)\n") <=> (DealerHand = <<>>)
        /\ (PlayerHand = <<>> /\ DealerHand = <<>> /\ Phase # PhaseGameOver) =>
              call.ret = "Bet: $" \o formatMoney(Bet) \o "\n"
                         \o "Player Hand: (no cards dealt)\nDealer Hand: (no cards dealt)\n"

\* the text of a round that ended in a push, with its payout line
C36_Witness ==
    /\ call.op = "GetGameState"
    /\ Phase = PhaseGameOver
    /\ Result = ResultPush
    /\ contains(call.ret, "Result: Push - tie game.\nPayout: $" \o formatMoney(Bet) \o "\n")

\* the session row of the id, whatever its expiry, is past its expiry
expired(sessionID) ==
    \A r \in sessions : r.ID = sessionID => r.ExpiresAt <= now

\* C37: a session whose expiry has passed does not validate, and the sweep
\* deletes only rows whose expiry has passed: over a run of
\* CleanupExpiredSessions, at any point between the connections' commands,
\* every session that validated still validates, to the same account, and no
\* balance, statistics row, connection or Game changes.
C37_SweepRemovesOnlyExpired ==
    /\ [](\A id \in sessionIDs :
            expired(id) => /\ GetSession(id).err # Nil
                           /\ ValidateSession(id).err # Nil)
    /\ [][call'.op = "CleanupExpiredSessions" =>
            /\ sessions' \subseteq sessions
            /\ \A r \in sessions \ sessions' : r.ExpiresAt <= now
            /\ \A id \in sessionIDs :
                  ValidateSession(id).err = Nil =>
                     ValidateSession(id)' = ValidateSession(id)
            /\ UNCHANGED <<users, userStats, clients, gameVars, ledger>>]_allVars

\* the sweep has just deleted an expired session while another session goes
\* on validating
C37_Witness ==
    /\ call.op = "CleanupExpiredSessions"
    /\ call.deleted # {}
    /\ \E id \in sessionIDs : ValidateSession(id).err = Nil

\* the accounts with the name
accountsNamed(username) == {i \in 1..Len(users) : users[i].Username = username}

\* C38: no two accounts have the same username, however the statements of
\* the connections' SIGNUP commands interleave.  A SIGNUP of a name that has
\* an account is answered with an ERROR and leaves every account and its
\* statistics as they were; a SIGNUP is answered with OK only when it added the
\* one account of its name, so of two SIGNUPs racing for a new name at most
\* one succeeds.
C38_UsernamesUnique ==
    /\ [](\A i, j \in 1..Len(users) : users[i].Username = users[j].Username => i = j)
    /\ [][call'.op = "SIGNUP" =>
            /\ Len(users') >= Len(users)
            /\ \A i \in 1..Len(users) : users'[i] = users[i] /\ userStats'[i] = userStats[i]
            /\ (Len(call'.args) = 2 /\ accountsNamed(call'.args[1]) # {}) =>
                  /\ users' = users
                  /\ userStats' = userStats
                  /\ (response' # response => startsWith(response'.text, "ERROR"))
            /\ (response' # response /\ startsWith(response'.text, "OK")) =>
                  /\ Len(users') = Len(users) + 1
                  /\ users'[Len(users')].Username = call'.args[1]
                  /\ \A i \in 1..Len(users) : users[i].Username # call'.args[1]]_allVars

\* two connections raced for the name: the INSERT of the second failed, and
\* the one account of the name has the password of the first
C38_Witness ==
    /\ call.op = "SIGNUP"
    /\ call.step = "create"
    /\ call.args = <<"al", "pq">>
    /\ startsWith(response.text, "ERROR failed to create user")
    /\ Len(users) = 1
    /\ users[1].Username = "al"
    /\ users[1].Password = HashPassword("pw")

cardsIn(cards) == {cards[i] : i \in 1..Len(cards)}

\* every card of the Game, wherever it is
held == cardsIn(Deck) \cup cardsIn(PlayerHand) \cup cardsIn(DealerHand)

\* what a hand has gained over the step
gained(hand, handAfter) == SubSeq(handAfter, Len(hand) + 1, Len(handAfter))

\* C39: the cards of the deck, the player hand and the dealer hand are at
\* every moment the cards of the deck the Game was created over, each in
\* exactly one place: no step changes the set or the number of them.  A hand
\* changes only by gaining cards at its end, and what the hands gain is what
\* left the front of the deck; a Hit, Stand or DoubleDown appends the cards in
\* the order they were drawn.
C39_CardsConserved ==
    /\ [](Cardinality(held) = Len(Deck) + Len(PlayerHand) + Len(DealerHand))
    /\ [][/\ held' = held
          /\ Len(PlayerHand') >= Len(PlayerHand)
          /\ Len(DealerHand') >= Len(DealerHand)
          /\ SubSeq(PlayerHand', 1, Len(PlayerHand)) = PlayerHand
          /\ SubSeq(DealerHand', 1, Len(DealerHand)) = DealerHand
          /\ Len(Deck') <= Len(Deck)
          /\ call'.op # "PlaceBet" =>
                LET drawn == SubSeq(Deck, 1, Len(Deck) - Len(Deck')) IN
                /\ Deck' = SubSeq(Deck, Len(drawn) + 1, Len(Deck))
                /\ cardsIn(gained(PlayerHand, PlayerHand'))
                      \cup cardsIn(gained(DealerHand, DealerHand')) = cardsIn(drawn)
                /\ call'.op \in {"Hit", "Stand", "DoubleDown"} =>
                      gained(PlayerHand, PlayerHand') \o gained(DealerHand, DealerHand')
                         = drawn]_vars

\* the player stood and the dealer drew the last card of the deck: every card
\* of the deck is in a hand
C39_Witness ==
    /\ call.op = "Stand"
    /\ err = Nil
    /\ Len(PlayerHand) = 2
    /\ Len(DealerHand) = 3
    /\ Deck = <<>>
    /\ Cardinality(held) = Len(PlayerHand) + Len(DealerHand)

\* C40: the stake is doubled at most once in a round.  An accepted PlaceBet(a)
\* leaves Bet = a with the doubled flag clear, and every later call of Hit,
\* Stand or DoubleDown, failing ones included, either leaves Bet and the flag
\* as they are or, the flag being clear, sets it and doubles Bet: so Bet is a
\* or 2a, and 2a exactly when the flag is set.
C40_StakeDoubledAtMostOnce ==
    [][/\ (call'.op \in {"PlaceBet", "PlaceBetNoShuffle"} /\ err' = Nil) =>
             Bet' = call'.amount /\ ~IsDoubled'
       /\ call'.op \in {"Hit", "Stand", "DoubleDown"} =>
             \/ Bet' = Bet /\ IsDoubled' = IsDoubled
             \/ ~IsDoubled /\ IsDoubled' /\ Bet' = 2 * Bet]_vars

============================================================================
